---------------------------- MODULE Spec2Model ----------------------------
(***************************************************************************)
(* BeanieBabyBuddy: the multi-source price-estimation aggregator.          *)
(*                                                                         *)
(* The module models the /api/estimate handler of src/src/worker.js (token *)
(* manager, source adapters, statistics engine, fallback orchestrator and  *)
(* response assembly) and, where a property depends on them, the earlier   *)
(* rewrites of the same handler kept in src/unnamed/.                      *)
(*                                                                         *)
(* JavaScript numbers are modelled as exact rationals <<n, d>>:            *)
(* d > 0 is a finite number in lowest terms, <<0, 0>> is NaN and           *)
(* <<1, 0>>, <<-1, 0>> are +/-Infinity.  The finite numbers end at         *)
(* +/-MAX_VALUE: a sum, difference or product beyond it is +/-Infinity, as *)
(* in IEEE 754 double arithmetic; rounding inside the range is not         *)
(* modelled.                                                               *)
(***************************************************************************)
EXTENDS Integers, Sequences, FiniteSets, TLC

(***************************************************************************)
(* Bounds of the model.                                                    *)
(***************************************************************************)
MaxRequests == 2
NCallers == 2
MaxCalls == 2
MaxTicks == 2
TickMs == 5000
MaxLen == 4
MaxRecords == 2

(***************************************************************************)
(* JavaScript values.                                                      *)
(***************************************************************************)
NaN == <<0, 0>>
PosInf == <<1, 0>>
NegInf == <<-1, 0>>

Abs(x) == IF x < 0 THEN -x ELSE x

RECURSIVE Gcd(_, _)
Gcd(a, b) == IF b = 0 THEN a ELSE Gcd(b, a % b)

\* The number n/d, d # 0, in lowest terms with a positive denominator.
Rat(n, d) ==
  LET g == Gcd(Abs(n), Abs(d))
      s == IF d < 0 THEN -1 ELSE 1
  IN  <<(s * n) \div g, (s * d) \div g>>

Int2Num(n) == <<n, 1>>

IsFinite(x) == x[2] # 0

\* Number.MAX_VALUE in the model's unit of price.
MAX_VALUE == 1000000

\* The double a finite result is stored as: +/-Infinity beyond +/-MAX_VALUE.
Overflow(x) ==
  IF x[1] > MAX_VALUE * x[2] THEN PosInf
  ELSE IF x[1] < (-MAX_VALUE) * x[2] THEN NegInf
  ELSE x

\* The element of a singleton set.
Only(S) == CHOOSE v \in S : TRUE

\* x + y, x - y, x * (n / d) with n, d > 0, and x <= y, on JavaScript numbers.
\* The operands are evaluated once, as values a and b.
NumAdd(x, y) ==
  Only({IF a = NaN \/ b = NaN THEN NaN
        ELSE IF ~IsFinite(a) THEN (IF ~IsFinite(b) /\ b # a THEN NaN ELSE a)
        ELSE IF ~IsFinite(b) THEN b
        ELSE Overflow(Rat(a[1] * b[2] + b[1] * a[2], a[2] * b[2])) :
        a \in {x}, b \in {y}})
NumSub(x, y) == Only({NumAdd(x, <<-b[1], b[2]>>) : b \in {y}})
NumScale(x, n, d) ==
  Only({IF ~IsFinite(a) THEN a ELSE Overflow(Rat(a[1] * n, a[2] * d)) : a \in {x}})
NumLeq(x, y) ==
  \E a \in {x}, b \in {y} :
    IF a = NaN \/ b = NaN THEN FALSE
    ELSE IF IsFinite(a) /\ IsFinite(b) THEN a[1] * b[2] <= b[1] * a[2]
    ELSE a = b \/ a = NegInf \/ b = PosInf

\* undefined, null, strings and numbers, as far as the handlers tell them apart.
JS_NULL == "<null>"
Truthy(s) == s # JS_NULL /\ s # ""

(***************************************************************************)
(* Statistics engine: summarize (src/src/worker.js).                       *)
(***************************************************************************)
\* A filter that drops NaN alone.
FilterFinite_KeepInfinity(series) == SelectSeq(series, LAMBDA x : x # NaN)

\* values.filter(Number.isFinite)
FilterFinite(values) == SelectSeq(values, IsFinite)

\* A sort that leaves the array as it is.
SortAsc_Unsorted(values) == values

\* Array.prototype.sort((x, y) => x - y): insertion into a sorted prefix.
RECURSIVE InsertSorted(_, _)
InsertSorted(a, v) ==
  IF a = <<>> THEN <<v>>
  ELSE IF NumLeq(v, Head(a)) /\ v # Head(a) THEN <<v>> \o a
  ELSE <<Head(a)>> \o InsertSorted(Tail(a), v)

RECURSIVE SortAsc(_)
SortAsc(values) ==
  IF values = <<>> THEN <<>>
  ELSE InsertSorted(SortAsc(SubSeq(values, 1, Len(values) - 1)), values[Len(values)])

\* a.reduce((s, v) => s + v, 0)
RECURSIVE SumSeq(_)
SumSeq(a) ==
  IF a = <<>> THEN Int2Num(0)
  ELSE NumAdd(SumSeq(SubSeq(a, 1, Len(a) - 1)), a[Len(a)])

\* q(p) for p = pn/4 on the sorted array a: i = (a.length - 1) * p,
\* lo = floor(i), hi = ceil(i), (a[lo] + a[hi]) / 2.  Indices are 0-based in
\* the source and 1-based here.
Quantile(a, pn) ==
  LET i4 == (Len(a) - 1) * pn
      lo == i4 \div 4
      hi == (i4 + 3) \div 4
  IN  NumScale(NumAdd(a[lo + 1], a[hi + 1]), 1, 2)

\* A trimmed mean with no fallback: 0 / 0 when nothing lies within the fences.
TrimmedMean_NoFallback(trimmed, avg) ==
  IF Len(trimmed) # 0 THEN NumScale(SumSeq(trimmed), 1, Len(trimmed)) ELSE NaN

\* trimmed.length ? trimmed.reduce((s, v) => s + v, 0) / trimmed.length : avg
TrimmedMean(trimmed, avg) ==
  IF Len(trimmed) # 0 THEN NumScale(SumSeq(trimmed), 1, Len(trimmed)) ELSE avg

\* summarize.  Each constant of the source is bound once, as a value, in the
\* order the source computes it: a, then sum, avg and the quartiles, then
\* iqr, then the fences, then trimmed.
summarize(values) ==
  Only({
    IF Len(a) = 0
    THEN [count |-> 0, min |-> NaN, max |-> NaN, avg |-> NaN, median |-> NaN,
          p25 |-> NaN, p75 |-> NaN, avg_trimmed |-> NaN]
    ELSE Only({
      Only({
        Only({
          Only({
            [count |-> Len(a), min |-> a[1], max |-> a[Len(a)], avg |-> avg,
             median |-> median, p25 |-> p25, p75 |-> p75,
             avg_trimmed |-> TrimmedMean(trimmed, avg)] :
            trimmed \in {SelectSeq(a, LAMBDA v :
                                        NumLeq(loFence, v) /\ NumLeq(v, hiFence))}}) :
          loFence \in {NumSub(p25, NumScale(iqr, 3, 2))},
          hiFence \in {NumAdd(p75, NumScale(iqr, 3, 2))}}) :
        iqr \in {NumSub(p75, p25)}}) :
      avg \in {NumScale(SumSeq(a), 1, Len(a))},
      p25 \in {Quantile(a, 1)},
      median \in {Quantile(a, 2)},
      p75 \in {Quantile(a, 3)}}) :
    a \in {SortAsc(FilterFinite(values))}})

\* items.map((i) => i.price)
Prices(items) == [k \in 1..Len(items) |-> items[k].price]

\* stats(vals) of the page script (src/public/camera.js): the three quantiles
\* of a copy of vals, sorted.  On an empty array a[lo] and a[hi] are
\* undefined and their sum is NaN.
stats(vals) ==
  LET a == SortAsc(vals)
      qq(pn) == IF Len(a) = 0 THEN NaN ELSE Quantile(a, pn)
  IN  [median |-> qq(2), p25 |-> qq(1), p75 |-> qq(3)]


(***************************************************************************)
(* JavaScript scalars as the adapters read them from a provider payload:   *)
(* undefined, a string or a number.                                        *)
(***************************************************************************)
Undef == [t |-> "undefined", s |-> "", n |-> NaN]
Str(s) == [t |-> "string", s |-> s, n |-> NaN]
NumV(x) == [t |-> "number", s |-> "", n |-> x]

\* The truthiness the || chains test: 0 and NaN (numerator 0) are falsy.
TruthyV(v) ==
  CASE v.t = "undefined" -> FALSE
    [] v.t = "string" -> v.s # ""
    [] v.t = "number" -> v.n[1] # 0

\* a || b
OrElse(a, b) == IF TruthyV(a) THEN a ELSE b

Digits == <<"0", "1", "2", "3", "4", "5", "6", "7", "8", "9">>
IsDigitChar(c) == \E k \in 1..10 : Digits[k] = c
DigitVal(c) == (CHOOSE k \in 1..10 : Digits[k] = c) - 1

RECURSIVE AllDigits(_)
AllDigits(s) == s = "" \/ (IsDigitChar(SubSeq(s, 1, 1)) /\ AllDigits(Tail(s)))

RECURSIVE DecimalValue(_, _)
DecimalValue(s, acc) ==
  IF s = "" THEN acc ELSE DecimalValue(Tail(s), 10 * acc + DigitVal(SubSeq(s, 1, 1)))

\* Number(s) for a string: the empty string is 0, a run of decimal digits is
\* its value, anything else (the model's other strings hold letters) is NaN.
StringToNumber(s) ==
  IF s = "" THEN Int2Num(0)
  ELSE IF AllDigits(s) THEN Int2Num(DecimalValue(s, 0))
  ELSE NaN

\* Number(v)
ToNumber(v) ==
  CASE v.t = "undefined" -> NaN
    [] v.t = "string" -> StringToNumber(v.s)
    [] v.t = "number" -> v.n

\* String.prototype.trim
RECURSIVE TrimLeft(_)
TrimLeft(s) == IF s # "" /\ SubSeq(s, 1, 1) = " " THEN TrimLeft(Tail(s)) ELSE s

RECURSIVE TrimRight(_)
TrimRight(s) ==
  IF s # "" /\ SubSeq(s, Len(s), Len(s)) = " "
  THEN TrimRight(SubSeq(s, 1, Len(s) - 1)) ELSE s

Trim(s) == TrimRight(TrimLeft(s))

\* url.searchParams.get("query")?.trim(): null stays nullish.
QueryParam(raw) == IF raw = JS_NULL THEN JS_NULL ELSE Trim(raw)

\* /^[0-9]{8,14}$/.test(query)
IsDigits(query) == Len(query) >= 8 /\ Len(query) <= 14 /\ AllDigits(query)

\* e && e.message ? e.message : String(e), for the Error objects the code throws.
ErrText(msg) == msg

(***************************************************************************)
(* Token manager: TOKEN_CACHE and getEbayToken (src/src/worker.js).        *)
(***************************************************************************)
SAFETY_MS == 60000

BROWSE_SCOPE == "https://api.ebay.com/oauth/api_scope/buy.browse"
INSIGHTS_SCOPE == "https://api.ebay.com/oauth/api_scope/buy.marketplace.insights"
Scopes == {BROWSE_SCOPE, INSIGHTS_SCOPE}

\* TOKEN_CACHE.get(scope) of a scope never set: undefined.
NoEntry == [present |-> FALSE, value |-> "", exp |-> 0]
EmptyCache == [s \in Scopes |-> NoEntry]

\* The k-th access token the credential endpoint issues for a scope.
TokenValue(scope, k) == "token#" \o ToString(k) \o " for " \o scope

\* if (cached && cached.exp > now + 60_000) return cached.value;
\* The cache test without the safety margin.
CacheFresh_NoMargin(cached, t) == cached.present /\ cached.exp > t

CacheFresh(cached, t) == cached.present /\ cached.exp > t + SAFETY_MS

\* The credential test looking at the client id alone.
CredsMissing_IdOnly(e) == ~e.EBAY_CLIENT_ID

\* if (!id || !secret) throw ...
CredsMissing(e) == ~e.EBAY_CLIENT_ID \/ ~e.EBAY_CLIENT_SECRET

Max(a, b) == IF a >= b THEN a ELSE b

\* now + Math.max(0, Number(data.expires_in || 0)) * 1000, for an expires_in
\* that is absent or an integer number of seconds.
TokenExp(t, expires_in) ==
  LET secs == ToNumber(OrElse(expires_in, NumV(Int2Num(0))))
  IN  t + Max(0, secs[1]) * 1000

\* getEbayToken up to its first await: the cached value, a thrown error, or the
\* credential exchange started.
getEbayTokenEnter(e, cache, scope, t) ==
  IF CacheFresh(cache[scope], t)
  THEN [kind |-> "return", value |-> cache[scope].value, msg |-> ""]
  ELSE IF CredsMissing(e)
  THEN [kind |-> "throw", value |-> "",
        msg |-> "Missing EBAY_CLIENT_ID or EBAY_CLIENT_SECRET"]
  ELSE [kind |-> "fetch", value |-> "", msg |-> ""]

\* getEbayToken from the credential endpoint's reply on: a thrown error, or the
\* token to store under the scope and return.  t is the `now` read on entry.
getEbayTokenResume(t, reply) ==
  IF ~reply.ok
  THEN [kind |-> "throw", value |-> "", exp |-> 0,
        msg |-> "eBay token error " \o ToString(reply.status) \o " " \o reply.text]
  ELSE IF reply.access_token = ""
  THEN [kind |-> "throw", value |-> "", exp |-> 0,
        msg |-> "OAuth response missing access_token"]
  ELSE [kind |-> "return", value |-> reply.access_token,
        exp |-> TokenExp(t, reply.expires_in), msg |-> ""]

\* TOKEN_CACHE.set(scope, { value: token, exp })
CacheSet(cache, scope, r) ==
  [cache EXCEPT ![scope] = [present |-> TRUE, value |-> r.value, exp |-> r.exp]]

\* What the credential endpoint may answer to the k-th exchange for a scope:
\* a refusal, a success without access_token, or a token with a lifetime.
ExpiresInValues ==
  {Undef} \cup {NumV(Int2Num(x)) : x \in {-5, 5, 70}}
TokenReplies(scope, k) ==
  {[ok |-> FALSE, status |-> 401, text |-> "invalid_client", access_token |-> "",
    expires_in |-> Undef],
   [ok |-> TRUE, status |-> 200, text |-> "", access_token |-> "",
    expires_in |-> Undef]}
  \cup {[ok |-> TRUE, status |-> 200, text |-> "",
         access_token |-> TokenValue(scope, k), expires_in |-> x] :
        x \in ExpiresInValues}

(***************************************************************************)
(* Source adapters (src/src/worker.js).  An adapter is applied to the      *)
(* provider's HTTP reply; its result is the value its promise settles to.  *)
(***************************************************************************)
NotArray == [isArray |-> FALSE, elems |-> <<>>]
Arr(elems) == [isArray |-> TRUE, elems |-> elems]

Thrown(msg) == [threw |-> TRUE, msg |-> msg, items |-> <<>>, note |-> ""]
Result(items, note) == [threw |-> FALSE, msg |-> "", items |-> items, note |-> note]

\* res.status + " " + res.statusText + ": " + (await res.text())
HttpErrorText(reply) ==
  ToString(reply.status) \o " " \o reply.statusText \o ": " \o reply.text

RECURSIVE MapSeq(_, _)
MapSeq(F(_), seq) ==
  IF seq = <<>> THEN <<>> ELSE <<F(Head(seq))>> \o MapSeq(F, Tail(seq))

\* A filter that lets everything but NaN through.
HasFinitePrice_NotNaN(i) == i.price # NaN

\* .filter((i) => Number.isFinite(i.price))
HasFinitePrice(i) == IsFinite(i.price)

\* (it.price && it.price.value) || (it.currentBidPrice && it.currentBidPrice.value) || NaN
CurrentPrice(it) == ToNumber(OrElse(OrElse(it.price, it.currentBidPrice), NumV(NaN)))

CurrentItem(it) == [title |-> it.title, price |-> CurrentPrice(it), source |-> "ebay_current"]

searchEbayCurrent(query, reply) ==
  IF ~reply.ok THEN Thrown(HttpErrorText(reply))
  ELSE LET summaries == IF reply.itemSummaries.isArray
                        THEN reply.itemSummaries.elems ELSE <<>>
           items == SelectSeq(MapSeq(CurrentItem, summaries), HasFinitePrice)
       IN  Result(items, IF IsDigits(query) THEN "eBay Browse (GTIN, current)"
                         ELSE "eBay Browse (keywords, current)")

\* The price || chain of searchEbaySold.
SoldPrice(it) ==
  ToNumber(OrElse(OrElse(OrElse(OrElse(OrElse(it.price, it.soldPrice),
           it.lastSoldPrice), it.transactionPrice), it.item_price), NumV(NaN)))

SoldItem(it) == [title |-> it.title, price |-> SoldPrice(it), source |-> "ebay_sold"]

searchEbaySold(query, reply) ==
  IF ~reply.ok THEN Thrown(HttpErrorText(reply))
  ELSE LET arr == IF reply.itemSales.isArray THEN reply.itemSales.elems
                  ELSE IF reply.item_sales.isArray THEN reply.item_sales.elems
                  ELSE IF reply.items.isArray THEN reply.items.elems
                  ELSE <<>>
           rows == SelectSeq(MapSeq(SoldItem, arr), HasFinitePrice)
           note == (IF IsDigits(query) THEN "eBay Insights (GTIN, sold)"
                    ELSE "eBay Insights (keywords, sold)")
                   \o (IF Len(rows) # 0 THEN "" ELSE " - no parsable prices")
       IN  Result(rows, note)

\* An Etsy price field: undefined, a string, or { amount, divisor }.
NoMoney == [t |-> "undefined", s |-> "", amount |-> Undef, divisor |-> Undef]
MoneyStr(s) == [t |-> "string", s |-> s, amount |-> Undef, divisor |-> Undef]
Money(a, d) == [t |-> "object", s |-> "", amount |-> a, divisor |-> d]
TruthyMoney(m) == m.t = "object" \/ (m.t = "string" /\ m.s # "")

EtsyPrice(it) ==
  LET m == IF TruthyMoney(it.price) THEN it.price ELSE it.original_price
      amount == ToNumber(m.amount)
      divisor == ToNumber(m.divisor)
  IN  IF TruthyMoney(m) /\ IsFinite(amount) /\ IsFinite(divisor) /\ divisor[1] # 0
      THEN Overflow(Rat(amount[1] * divisor[2], amount[2] * divisor[1]))
      ELSE IF it.price.t = "string" THEN StringToNumber(it.price.s)
      ELSE NaN

EtsyItem(it) == [title |-> it.title, price |-> EtsyPrice(it), source |-> "etsy_current"]

searchEtsyCurrent(query, reply) ==
  IF ~reply.ok THEN Thrown(HttpErrorText(reply))
  ELSE LET results == IF reply.results.isArray THEN reply.results.elems
                      ELSE IF reply.listings.isArray THEN reply.listings.elems
                      ELSE <<>>
           items == SelectSeq(MapSeq(EtsyItem, results), HasFinitePrice)
       IN  Result(items, "Etsy active listings (keywords, current)")

(***************************************************************************)
(* The providers' possible HTTP replies.                                   *)
(***************************************************************************)
BrowseHttpError ==
  [ok |-> FALSE, status |-> 500, statusText |-> "Internal Server Error",
   text |-> "browse down", itemSummaries |-> NotArray]
BrowseOk(summaries) ==
  [ok |-> TRUE, status |-> 200, statusText |-> "OK", text |-> "",
   itemSummaries |-> summaries]
RawCurrent(title, price, bid) ==
  [title |-> title, price |-> price, currentBidPrice |-> bid]
BrowseReplies ==
  {BrowseHttpError,
   BrowseOk(NotArray),
   BrowseOk(Arr(<<RawCurrent("Bear D", Str("free"), Undef)>>)),
   BrowseOk(Arr(<<RawCurrent("Bear A", Str("30"), Undef),
                  RawCurrent("Bear B", Undef, Str("12"))>>))}

InsightsHttpError ==
  [ok |-> FALSE, status |-> 403, statusText |-> "Forbidden",
   text |-> "insights denied", itemSales |-> NotArray, item_sales |-> NotArray,
   items |-> NotArray]
InsightsOk(itemSales, item_sales, items) ==
  [ok |-> TRUE, status |-> 200, statusText |-> "OK", text |-> "",
   itemSales |-> itemSales, item_sales |-> item_sales, items |-> items]
RawSold(title, price, soldPrice, lastSoldPrice, transactionPrice, item_price) ==
  [title |-> title, price |-> price, soldPrice |-> soldPrice,
   lastSoldPrice |-> lastSoldPrice, transactionPrice |-> transactionPrice,
   item_price |-> item_price]
InsightsReplies ==
  {InsightsHttpError,
   InsightsOk(NotArray, NotArray, NotArray),
   InsightsOk(Arr(<<RawSold("Bear S", Str("8"), Undef, Undef, Undef, Undef),
                    RawSold("Bear T", Undef, Undef, Str("14"), Undef, Undef)>>),
              NotArray, NotArray)}

EtsyHttpError ==
  [ok |-> FALSE, status |-> 429, statusText |-> "Too Many Requests",
   text |-> "etsy throttled", results |-> NotArray, listings |-> NotArray]
EtsyOk(results, listings) ==
  [ok |-> TRUE, status |-> 200, statusText |-> "OK", text |-> "",
   results |-> results, listings |-> listings]
RawEtsy(title, price, original_price) ==
  [title |-> title, price |-> price, original_price |-> original_price]
EtsyReplies ==
  {EtsyHttpError,
   EtsyOk(Arr(<<>>), NotArray),
   EtsyOk(Arr(<<RawEtsy("Etsy bear 1", Money(Str("1000"), NumV(Int2Num(100))), NoMoney),
                RawEtsy("Etsy bear 2", MoneyStr("20"), NoMoney)>>), NotArray)}

\* The raw ?query= values of a request: absent, empty, blank, a product code
\* and keywords.
RawQueries == {JS_NULL, "", " ", "00842112345", " bear "}

\* The configurations of the deployed worker: each secret is set or not.
WorkerEnvs ==
  {[EBAY_CLIENT_ID |-> id, EBAY_CLIENT_SECRET |-> sec, ETSY_API_KEY |-> etsy,
    EBAY_OAUTH_TOKEN |-> FALSE, EBAY_APP_ID |-> FALSE] :
   id \in BOOLEAN, sec \in BOOLEAN, etsy \in BOOLEAN}

(***************************************************************************)
(* State.                                                                  *)
(***************************************************************************)
VARIABLES
  env,            \* the worker's configuration (which secrets are set)
  now,            \* Date.now(), in ms
  TOKEN_CACHE,    \* scope -> { value, exp }
  issued,         \* scope -> number of tokens the credential endpoint has issued
  nreq,           \* requests received so far
  pc,             \* where the request's handler stands
  q,              \* the trimmed query
  notes,          \* the handler's notes array
  browseToken,    \* the handler's browseToken
  insightsToken,  \* the handler's insightsToken
  tnow,           \* `now` read by the getEbayToken call in progress
  res,            \* the credential endpoint's reply to the last exchange
  cur,            \* pCurrent: not created, in flight, or what it settled to
  sold,           \* pSold, likewise
  et,             \* the Etsy call, likewise
  items_current,  \* the handler's items_current
  response,       \* the response returned for the request
  raised,         \* history: the errors thrown during the request
  calls,          \* history: the external calls started during the request
  items_sold,     \* the handler's items_sold, where it is assigned step by step
  fcur,           \* the Finding call for current listings (fallback variants)
  fsold,          \* the Finding call for sold listings (fallback variants)
  TOKEN_MEMO,     \* the single-slot token memo of the Finding-based variant
  callers,        \* concurrent callers of the token manager
  CACHE,          \* the response cache of the Finding-only variant: query -> entry
  payload,        \* a provider payload handed to an adapter on its own
  values,         \* the series handed to summarize
  summary,        \* what summarize returned for it
  runs,           \* how many times summarize has been called on it
  Logger,         \* the page's Logger class: its static fields
  wrapper,        \* the page's QuaggaWrapper instance
  els,            \* the page's status elements: count, median, iqr, detected
  scanned         \* a code handed to isValidGTIN / acceptScannedCode on its own

vars == <<env, now, TOKEN_CACHE, issued, nreq, pc, q, notes, browseToken,
          insightsToken, tnow, res, cur, sold, et, items_current, response,
          raised, calls, items_sold, fcur, fsold, TOKEN_MEMO, callers, CACHE,
          payload, values, summary, runs, Logger, wrapper, els, scanned>>

\* The state of the page (src/public/camera.js).
pageVars == <<Logger, wrapper, els, scanned>>

\* The response cache, the inputs and outputs of the adapters and of the
\* statistics engine taken on their own, and the page.
extVars == <<CACHE, payload, values, summary, runs, pageVars>>

\* What the handler of src/src/worker.js does not touch.
variantVars == <<fcur, fsold, TOKEN_MEMO, callers, extVars>>

reqVars == <<q, notes, browseToken, insightsToken, tnow, res, cur, sold, et,
             items_current, items_sold, response, raised, calls>>

NoPromise == [st |-> "none", hasItems |-> FALSE, items |-> <<>>, note |-> "", error |-> ""]
InFlight == [st |-> "inflight", hasItems |-> FALSE, items |-> <<>>, note |-> "", error |-> ""]
\* A promise resolved with { items, note }.
Resolved(items, note) ==
  [st |-> "done", hasItems |-> TRUE, items |-> items, note |-> note, error |-> ""]
\* A promise resolved with { error }.
ResolvedError(error) ==
  [st |-> "done", hasItems |-> FALSE, items |-> <<>>, note |-> "", error |-> error]
\* A promise rejected with an Error.
Rejected(msg) ==
  [st |-> "rejected", hasItems |-> FALSE, items |-> <<>>, note |-> "", error |-> msg]

NoReply == [ok |-> FALSE, status |-> 0, text |-> "", access_token |-> "",
            expires_in |-> Undef]
NoResponse == [status |-> 0]
CallNames == {"exchange:browse", "exchange:insights", "current", "sold", "etsy",
              "finding:current", "finding:sold"}
NoCalls == [c \in CallNames |-> 0]
\* No payload is under study.
NoPayload == [kind |-> "none", records |-> <<>>]
\* new Map()
EmptyMap == [k \in {} |-> NoResponse]
\* summarize has not been called.
NoSummary == [count |-> -1]
NoMemo == [present |-> FALSE, token |-> "", exp |-> 0, scope |-> ""]
Called(c) == [calls EXCEPT ![c] = @ + 1]

\* An error thrown at one of the request's steps.
Raise(step, msg) == raised \cup {[step |-> step, msg |-> msg]}

(***************************************************************************)
(* The /api/estimate handler of src/src/worker.js.  Each action is the     *)
(* code the handler runs between two awaits; time passes (Tick) only while *)
(* the handler is suspended or no request is being handled.                *)
(***************************************************************************)
\* json(body, status): status || 200
json(body, status) == [status |-> IF status = 0 THEN 200 ELSE status, body |-> body]

\* An exception that leaves the handler: the runtime answers for it.
Uncaught(msg) == [status |-> 500, body |-> [error |-> "uncaught: " \o msg]]

\* notes.join(" | ")
RECURSIVE JoinNotes(_)
JoinNotes(seq) ==
  IF seq = <<>> THEN ""
  ELSE IF Len(seq) = 1 THEN seq[1]
  ELSE seq[1] \o " | " \o JoinNotes(Tail(seq))

\* A push that is skipped.
PushIf_Skipped(seq, text) == seq

\* if (p && p.note) notes.push(p.note)
PushIf(seq, text) == IF Truthy(text) THEN Append(seq, text) ELSE seq

StepScope(step) == IF step = "browse" THEN BROWSE_SCOPE ELSE INSIGHTS_SCOPE
StepLabel(step) == IF step = "browse" THEN "Browse token error: " ELSE "Insights token error: "
StepNext(step) == IF step = "browse" THEN "token:insights" ELSE "dispatch"

\* browseToken = ... / insightsToken = ...
SetToken(step, value) ==
  IF step = "browse"
  THEN browseToken' = value /\ UNCHANGED insightsToken
  ELSE insightsToken' = value /\ UNCHANGED browseToken

NewRequestVars ==
  /\ notes' = <<>>
  /\ browseToken' = JS_NULL
  /\ insightsToken' = JS_NULL
  /\ tnow' = 0
  /\ res' = NoReply
  /\ cur' = NoPromise
  /\ sold' = NoPromise
  /\ et' = NoPromise
  /\ items_current' = <<>>
  /\ items_sold' = <<>>
  /\ raised' = {}
  /\ calls' = NoCalls

\* The page is not loaded.
NoLogger == [loaded |-> FALSE]
NoWrapper == [loaded |-> FALSE]
NoEls == [loaded |-> FALSE]
NoScan == [raw |-> "", called |-> FALSE]
PageUnloaded ==
  Logger = NoLogger /\ wrapper = NoWrapper /\ els = NoEls /\ scanned = NoScan

\* The module state of a freshly loaded worker, before any request.
ModuleState ==
  /\ now = 0
  /\ TOKEN_CACHE = EmptyCache
  /\ issued = [s \in Scopes |-> 0]
  /\ nreq = 0
  /\ pc = "idle"
  /\ q = JS_NULL
  /\ notes = <<>>
  /\ browseToken = JS_NULL
  /\ insightsToken = JS_NULL
  /\ tnow = 0
  /\ res = NoReply
  /\ cur = NoPromise
  /\ sold = NoPromise
  /\ et = NoPromise
  /\ items_current = <<>>
  /\ response = NoResponse
  /\ raised = {}
  /\ calls = NoCalls
  /\ items_sold = <<>>
  /\ fcur = NoPromise
  /\ fsold = NoPromise
  /\ TOKEN_MEMO = NoMemo
  /\ CACHE = EmptyMap
  /\ summary = NoSummary
  /\ runs = 0

InitialState == PageUnloaded /\ ModuleState

WorkerInit == env \in WorkerEnvs /\ InitialState /\ callers = <<>> /\ values = <<>> /\ payload = NoPayload

\* A request arrives: the query is validated.
\* A handler with the query check left out.
Request_NoValidation(raw) ==
  /\ pc \in {"idle", "done", "aborted"}
  /\ nreq < MaxRequests
  /\ nreq' = nreq + 1
  /\ q' = QueryParam(raw)
  /\ NewRequestVars
  /\ response' = NoResponse
  /\ pc' = "token:browse"
  /\ UNCHANGED <<env, now, TOKEN_CACHE, issued>>
  /\ UNCHANGED variantVars

Request(raw) ==
  /\ pc \in {"idle", "done", "aborted"}
  /\ nreq < MaxRequests
  /\ nreq' = nreq + 1
  /\ q' = QueryParam(raw)
  /\ NewRequestVars
  /\ IF ~Truthy(QueryParam(raw))
     THEN response' = json([error |-> "Missing query"], 400) /\ pc' = "done"
     ELSE response' = NoResponse /\ pc' = "token:browse"
  /\ UNCHANGED <<env, now, TOKEN_CACHE, issued>>
  /\ UNCHANGED variantVars

\* try { token = await getEbayToken(env, scope) } catch (e) { notes.push(...) },
\* up to getEbayToken's fetch.
TokenEnter(step) ==
  /\ pc = "token:" \o step
  /\ LET r == getEbayTokenEnter(env, TOKEN_CACHE, StepScope(step), now)
     IN  CASE r.kind = "return" ->
                /\ SetToken(step, r.value)
                /\ pc' = StepNext(step)
                /\ UNCHANGED <<notes, tnow, raised, calls>>
           [] r.kind = "throw" ->
                /\ notes' = Append(notes, StepLabel(step) \o ErrText(r.msg))
                /\ raised' = Raise("token:" \o step, r.msg)
                /\ pc' = StepNext(step)
                /\ UNCHANGED <<browseToken, insightsToken, tnow, calls>>
           [] r.kind = "fetch" ->
                /\ tnow' = now
                /\ calls' = Called("exchange:" \o step)
                /\ pc' = "exchange:" \o step
                /\ UNCHANGED <<browseToken, insightsToken, notes, raised>>
  /\ UNCHANGED <<env, now, TOKEN_CACHE, issued, nreq, q, res, cur, sold, et,
                 items_current, response>>
  /\ UNCHANGED items_sold
  /\ UNCHANGED variantVars

\* The credential endpoint answers; getEbayToken and the handler's try/catch resume.
TokenReply(step) ==
  /\ pc = "exchange:" \o step
  /\ \E reply \in TokenReplies(StepScope(step), issued[StepScope(step)] + 1) :
       LET r == getEbayTokenResume(tnow, reply)
       IN  /\ res' = reply
           /\ issued' = IF reply.access_token # ""
                        THEN [issued EXCEPT ![StepScope(step)] = @ + 1] ELSE issued
           /\ IF r.kind = "return"
              THEN /\ TOKEN_CACHE' = CacheSet(TOKEN_CACHE, StepScope(step), r)
                   /\ SetToken(step, r.value)
                   /\ UNCHANGED <<notes, raised>>
              ELSE /\ notes' = Append(notes, StepLabel(step) \o ErrText(r.msg))
                   /\ raised' = Raise("token:" \o step, r.msg)
                   /\ UNCHANGED <<TOKEN_CACHE, browseToken, insightsToken>>
  /\ pc' = StepNext(step)
  /\ UNCHANGED <<env, now, nreq, q, tnow, cur, sold, et, items_current, response,
                 calls>>
  /\ UNCHANGED items_sold
  /\ UNCHANGED variantVars

\* The current search dispatched whatever the token.
StartCurrent_Always(token) == InFlight

\* const pCurrent = browseToken ? searchEbayCurrent(...).catch(...) : Promise.resolve({ error })
StartCurrent(token) ==
  IF Truthy(token) THEN InFlight ELSE ResolvedError("No Browse token")

\* const pSold = insightsToken ? searchEbaySold(...).catch(...) : Promise.resolve({ error })
StartSold(token) ==
  IF Truthy(token) THEN InFlight ELSE ResolvedError("No Insights token")

\* An adapter that is invoked a second time.
Started_Retried(p) == IF p.st = "inflight" THEN 2 ELSE 0

\* The adapter invocations a primary promise stands for.
Started(p) == IF p.st = "inflight" THEN 1 ELSE 0

\* Both primary promises are created, then the handler awaits Promise.all.
Dispatch ==
  /\ pc = "dispatch"
  /\ cur' = StartCurrent(browseToken)
  /\ sold' = StartSold(insightsToken)
  /\ calls' = [calls EXCEPT !["current"] = @ + Started(StartCurrent(browseToken)),
                            !["sold"] = @ + Started(StartSold(insightsToken))]
  /\ pc' = "join"
  /\ UNCHANGED <<env, now, TOKEN_CACHE, issued, nreq, q, notes, browseToken,
                 insightsToken, tnow, res, et, items_current, response, raised>>
  /\ UNCHANGED items_sold
  /\ UNCHANGED variantVars

\* The current search without its .catch: a thrown error rejects pCurrent.
SettleCurrent_NoCatch(r) ==
  IF r.threw THEN Rejected(r.msg) ELSE Resolved(r.items, r.note)

\* searchEbayCurrent(...).catch((e) => ({ error: "eBay current error: " + ... }))
SettleCurrent(r) ==
  IF r.threw THEN ResolvedError("eBay current error: " \o ErrText(r.msg))
  ELSE Resolved(r.items, r.note)

\* The sold search without its .catch: a thrown error rejects pSold.
SettleSold_NoCatch(r) ==
  IF r.threw THEN Rejected(r.msg) ELSE Resolved(r.items, r.note)

\* searchEbaySold(...).catch((e) => ({ error: "eBay sold error: " + ... }))
SettleSold(r) ==
  IF r.threw THEN ResolvedError("eBay sold error: " \o ErrText(r.msg))
  ELSE Resolved(r.items, r.note)

\* The Browse API answers pCurrent's request.
CurrentReply ==
  /\ pc = "join"
  /\ cur.st = "inflight"
  /\ \E reply \in BrowseReplies :
       LET r == searchEbayCurrent(q, reply)
       IN  /\ cur' = SettleCurrent(r)
           /\ raised' = IF r.threw THEN Raise("current", r.msg) ELSE raised
  /\ UNCHANGED <<env, now, TOKEN_CACHE, issued, nreq, pc, q, notes, browseToken,
                 insightsToken, tnow, res, sold, et, items_current, response, calls>>
  /\ UNCHANGED items_sold
  /\ UNCHANGED variantVars

\* The Marketplace Insights API answers pSold's request.
SoldReply ==
  /\ pc = "join"
  /\ sold.st = "inflight"
  /\ \E reply \in InsightsReplies :
       LET r == searchEbaySold(q, reply)
       IN  /\ sold' = SettleSold(r)
           /\ raised' = IF r.threw THEN Raise("sold", r.msg) ELSE raised
  /\ UNCHANGED <<env, now, TOKEN_CACHE, issued, nreq, pc, q, notes, browseToken,
                 insightsToken, tnow, res, cur, et, items_current, response, calls>>
  /\ UNCHANGED items_sold
  /\ UNCHANGED variantVars

\* A join that resumes as soon as either promise has resolved.
JoinReady_Either == cur.st = "done" \/ sold.st = "done"

\* A join that waits for pCurrent alone.
JoinReady_CurrentOnly == cur.st = "done"

\* await Promise.all([pCurrent, pSold]) resumes once both have resolved, or
\* as soon as one has rejected.
JoinReady ==
  \/ cur.st = "done" /\ sold.st = "done"
  \/ cur.st = "rejected"
  \/ sold.st = "rejected"

\* Array.isArray(p?.items) ? p.items : []
ItemsOf(p) == IF p.hasItems THEN p.items ELSE <<>>

\* if (!items_current.length && env.ETSY_API_KEY)
CascadeToEtsy(items, e) == Len(items) = 0 /\ e.ETSY_API_KEY

\* if (et.items.length) items_current = et.items;
AfterEtsy(items, r) == IF Len(r.items) # 0 THEN r.items ELSE items

\* The try/catch around searchEtsyCurrent: what is pushed to notes.
EtsyNote(r) ==
  IF r.threw THEN "Etsy current error: " \o ErrText(r.msg) ELSE r.note

\* An assembly that puts the sold notes before all the others.
Assemble_SoldFirst(items, ns) ==
  LET sold_items == ItemsOf(sold)
      all_notes == PushIf(PushIf(<<>>, sold.note), sold.error) \o ns
  IN  /\ items_current' = items
      /\ items_sold' = sold_items
      /\ notes' = all_notes
      /\ response' = json([items_current |-> items,
                           items_sold |-> sold_items,
                           stats |-> [current |-> summarize(Prices(items)),
                                      sold |-> summarize(Prices(sold_items)),
                                      combined |-> summarize(Prices(items \o sold_items))],
                           note |-> JoinNotes(all_notes)], 0)
      /\ pc' = "done"

\* An assembly whose stats.current is taken from what the primary adapter
\* returned, before the cascade.
Assemble_StatsOfPrimary(items, ns) ==
  LET sold_items == ItemsOf(sold)
      all_notes == PushIf(PushIf(ns, sold.note), sold.error)
  IN  /\ items_current' = items
      /\ items_sold' = sold_items
      /\ notes' = all_notes
      /\ response' = json([items_current |-> items,
                           items_sold |-> sold_items,
                           stats |-> [current |-> summarize(Prices(ItemsOf(cur))),
                                      sold |-> summarize(Prices(sold_items)),
                                      combined |-> summarize(Prices(items \o sold_items))],
                           note |-> JoinNotes(all_notes)], 0)
      /\ pc' = "done"

\* items_sold, the sold notes, the three summaries and the response.
Assemble(items, ns) ==
  LET sold_items == ItemsOf(sold)
      all_notes == PushIf(PushIf(ns, sold.note), sold.error)
  IN  /\ items_current' = items
      /\ items_sold' = sold_items
      /\ notes' = all_notes
      /\ response' = json([items_current |-> items,
                           items_sold |-> sold_items,
                           stats |-> [current |-> summarize(Prices(items)),
                                      sold |-> summarize(Prices(sold_items)),
                                      combined |-> summarize(Prices(items \o sold_items))],
                           note |-> JoinNotes(all_notes)], 0)
      /\ pc' = "done"

\* Promise.all has settled: the current notes, then the cascade or the assembly.
Join ==
  /\ pc = "join"
  /\ JoinReady
  /\ IF cur.st = "rejected" \/ sold.st = "rejected"
     THEN /\ response' = Uncaught(IF cur.st = "rejected" THEN cur.error ELSE sold.error)
          /\ pc' = "aborted"
          /\ UNCHANGED <<items_current, items_sold, notes, calls, et>>
     ELSE LET items == ItemsOf(cur)
              ns == PushIf(PushIf(notes, cur.note), cur.error)
          IN  IF CascadeToEtsy(items, env)
              THEN /\ items_current' = items
                   /\ notes' = ns
                   /\ calls' = Called("etsy")
                   /\ et' = InFlight
                   /\ pc' = "etsy"
                   /\ UNCHANGED <<response, items_sold>>
              ELSE Assemble(items, ns) /\ UNCHANGED <<calls, et>>
  /\ UNCHANGED <<env, now, TOKEN_CACHE, issued, nreq, q, browseToken, insightsToken,
                 tnow, res, cur, sold, raised>>
  /\ UNCHANGED variantVars

\* Etsy answers: the try/catch around searchEtsyCurrent, then the assembly.
EtsyReply ==
  /\ pc = "etsy"
  /\ \E reply \in EtsyReplies :
       LET r == searchEtsyCurrent(q, reply)
       IN  /\ et' = IF r.threw THEN Rejected(r.msg) ELSE Resolved(r.items, r.note)
           /\ raised' = IF r.threw THEN Raise("etsy", r.msg) ELSE raised
           /\ Assemble(IF r.threw THEN items_current ELSE AfterEtsy(items_current, r),
                       Append(notes, EtsyNote(r)))
  /\ UNCHANGED <<env, now, TOKEN_CACHE, issued, nreq, q, browseToken, insightsToken,
                 tnow, res, cur, sold, calls>>
  /\ UNCHANGED variantVars

\* Time passes while no handler code runs.  Date.now() is read by getEbayToken
\* alone, so the time that passes while the adapters are in flight is taken
\* to pass once the response is returned.
Tick ==
  /\ pc \in {"idle", "done", "aborted", "exchange:browse", "exchange:insights"}
  /\ now + TickMs <= MaxTicks * TickMs
  /\ now' = now + TickMs
  /\ UNCHANGED <<env, TOKEN_CACHE, issued, nreq, pc>>
  /\ UNCHANGED reqVars
  /\ UNCHANGED variantVars

WorkerNext ==
  \/ \E raw \in RawQueries : Request(raw)
  \/ \E step \in {"browse", "insights"} : TokenEnter(step)
  \/ \E step \in {"browse", "insights"} : TokenReply(step)
  \/ Dispatch
  \/ CurrentReply
  \/ SoldReply
  \/ Join
  \/ EtsyReply
  \/ Tick

Spec == WorkerInit /\ [][WorkerNext]_vars

\* The handler under the assumption that every external call settles: each
\* credential exchange and each adapter fetch is eventually answered, and
\* the runtime eventually runs a continuation that is ready to run.
\* A step of the request in progress is then never postponed forever.
HandlerStep ==
  \/ \E step \in {"browse", "insights"} : TokenEnter(step)
  \/ \E step \in {"browse", "insights"} : TokenReply(step)
  \/ Dispatch
  \/ CurrentReply
  \/ SoldReply
  \/ Join
  \/ EtsyReply

\* Whether the request terminates does not depend on the clock: Date.now() is
\* read by getEbayToken alone, and with the clock standing still a cached
\* token is both found fresh (lifetime 70 s) and found stale (5 s or less).
LiveNext ==
  \/ \E raw \in RawQueries : Request(raw)
  \/ HandlerStep

SpecLive == WorkerInit /\ [][LiveNext]_vars /\ WF_vars(HandlerStep)

(***************************************************************************)
(* The unified /api/estimate handler with the Finding fallback             *)
(* (src/unnamed/part_002).  Its calls are awaited one after the other: the *)
(* current branch (Browse, else Finding, else Etsy), then the sold branch  *)
(* (Insights, else Finding).  browseToken and insightsToken stand for the  *)
(* `tok` of each branch, TOKEN_CACHE for __TOKENS.                         *)
(***************************************************************************)
\* getEbayToken up to its fetch.
P002_getEbayTokenEnter(e, tokens, scope, t) ==
  IF tokens[scope].present /\ tokens[scope].exp > t + 60000
  THEN [kind |-> "return", value |-> tokens[scope].value, msg |-> ""]
  ELSE IF ~e.EBAY_CLIENT_ID \/ ~e.EBAY_CLIENT_SECRET
  THEN [kind |-> "throw", value |-> "",
        msg |-> "Missing EBAY_CLIENT_ID/EBAY_CLIENT_SECRET"]
  ELSE [kind |-> "fetch", value |-> "", msg |-> ""]

\* Date.now() + Number(data.expires_in || 0) * 1000, Date.now() being read
\* after the reply.
P002_TokenExp(t, expires_in) ==
  t + ToNumber(OrElse(expires_in, NumV(Int2Num(0))))[1] * 1000

\* getEbayToken from the credential endpoint's reply on.
P002_getEbayTokenResume(t, reply) ==
  IF ~reply.ok
  THEN [kind |-> "throw", value |-> "", exp |-> 0,
        msg |-> "eBay token error " \o ToString(reply.status) \o " " \o reply.text]
  ELSE IF reply.access_token = ""
  THEN [kind |-> "throw", value |-> "", exp |-> 0,
        msg |-> "No access_token in token response"]
  ELSE [kind |-> "return", value |-> reply.access_token,
        exp |-> P002_TokenExp(t, reply.expires_in), msg |-> ""]

\* a ?? b
Nullish(a, b) == IF a.t = "undefined" THEN b ELSE a

\* The price ?? chain of searchEbaySold.
P002_SoldPrice(it) ==
  ToNumber(Nullish(Nullish(Nullish(Nullish(Nullish(it.price, it.soldPrice),
           it.lastSoldPrice), it.transactionPrice), it.item_price), NumV(NaN)))

P002_SoldItem(it) == [title |-> it.title, price |-> P002_SoldPrice(it), source |-> "ebay_sold"]

P002_searchEbaySold(query, reply) ==
  IF ~reply.ok THEN Thrown(HttpErrorText(reply))
  ELSE LET arr == IF reply.itemSales.isArray THEN reply.itemSales.elems
                  ELSE IF reply.item_sales.isArray THEN reply.item_sales.elems
                  ELSE IF reply.items.isArray THEN reply.items.elems
                  ELSE <<>>
       IN  Result(SelectSeq(MapSeq(P002_SoldItem, arr), HasFinitePrice),
                  IF IsDigits(query) THEN "eBay Insights (GTIN, sold)"
                  ELSE "eBay Insights (keywords, sold)")

\* Number(it.sellingStatus?.[0]?.currentPrice?.[0]?.__value__ || Number.NaN)
FindingPrice(it) == ToNumber(OrElse(it.currentPrice, NumV(NaN)))

FindingCurrentItem(it) ==
  [title |-> it.title, price |-> FindingPrice(it), source |-> "ebay_current_legacy"]
FindingSoldItem(it) ==
  [title |-> it.title, price |-> FindingPrice(it), source |-> "ebay_sold_legacy"]

searchEbayFindingCurrent(query, reply) ==
  IF ~reply.ok THEN Thrown(HttpErrorText(reply))
  ELSE Result(SelectSeq(MapSeq(FindingCurrentItem, reply.item), HasFinitePrice),
              "eBay Finding (keywords, current)")

searchEbayFindingSold(query, reply) ==
  IF ~reply.ok THEN Thrown(HttpErrorText(reply))
  ELSE Result(SelectSeq(MapSeq(FindingSoldItem, reply.item), HasFinitePrice),
              "eBay Finding (keywords, sold)")

\* What the Finding service may answer: an HTTP error, no item, one item.
FindingReplies ==
  {[ok |-> FALSE, status |-> 500, statusText |-> "Internal Server Error",
    text |-> "finding down", item |-> <<>>],
   [ok |-> TRUE, status |-> 200, statusText |-> "OK", text |-> "", item |-> <<>>],
   [ok |-> TRUE, status |-> 200, statusText |-> "OK", text |-> "",
    item |-> <<[title |-> "Bear F", currentPrice |-> Str("25")]>>]}

P002_Label(step) ==
  IF step = "browse" THEN "Browse token/current error: "
  ELSE "Insights token/sold error: "
P002_Adapter(step) == IF step = "browse" THEN "current" ELSE "sold"

\* const cur = await searchEbayCurrent(q, tok, marketplace), or the same for
\* sold: the adapter is called with the token just obtained.
P002_StartAdapter(step, token) ==
  /\ SetToken(step, token)
  /\ IF step = "browse"
     THEN cur' = InFlight /\ UNCHANGED sold
     ELSE sold' = InFlight /\ UNCHANGED cur
  /\ calls' = Called(P002_Adapter(step))
  /\ pc' = P002_Adapter(step)
  /\ UNCHANGED <<notes, raised, fcur, fsold>>

\* catch (e) { notes.push(...); try { await searchEbayFinding...(q, appId) ...
P002_Catch(step, at, msg) ==
  /\ notes' = Append(notes, P002_Label(step) \o ErrText(msg))
  /\ raised' = Raise(at, msg)
  /\ IF step = "browse"
     THEN fcur' = InFlight /\ UNCHANGED fsold
     ELSE fsold' = InFlight /\ UNCHANGED fcur
  /\ calls' = Called("finding:" \o P002_Adapter(step))
  /\ pc' = "finding:" \o P002_Adapter(step)

P002_Request(raw) ==
  /\ pc \in {"idle", "done"}
  /\ nreq < MaxRequests
  /\ nreq' = nreq + 1
  /\ q' = QueryParam(raw)
  /\ NewRequestVars
  /\ fcur' = NoPromise
  /\ fsold' = NoPromise
  /\ IF ~Truthy(QueryParam(raw))
     THEN response' = json([error |-> "Missing query"], 400) /\ pc' = "done"
     ELSE response' = NoResponse /\ pc' = "token:browse"
  /\ UNCHANGED <<env, now, TOKEN_CACHE, issued, TOKEN_MEMO, callers, extVars>>

P002_TokenEnter(step) ==
  /\ pc = "token:" \o step
  /\ LET r == P002_getEbayTokenEnter(env, TOKEN_CACHE, StepScope(step), now)
     IN  CASE r.kind = "return" -> P002_StartAdapter(step, r.value)
           [] r.kind = "throw" ->
                /\ P002_Catch(step, "token:" \o step, r.msg)
                /\ UNCHANGED <<browseToken, insightsToken, cur, sold>>
           [] r.kind = "fetch" ->
                /\ calls' = Called("exchange:" \o step)
                /\ pc' = "exchange:" \o step
                /\ UNCHANGED <<browseToken, insightsToken, cur, sold, notes, raised,
                               fcur, fsold>>
  /\ UNCHANGED <<env, now, TOKEN_CACHE, issued, nreq, q, tnow, res, et, items_current,
                 items_sold, response, TOKEN_MEMO, callers, extVars>>

P002_TokenReply(step) ==
  /\ pc = "exchange:" \o step
  /\ \E reply \in TokenReplies(StepScope(step), issued[StepScope(step)] + 1) :
       LET r == P002_getEbayTokenResume(now, reply)
       IN  /\ res' = reply
           /\ issued' = IF reply.access_token # ""
                        THEN [issued EXCEPT ![StepScope(step)] = @ + 1] ELSE issued
           /\ IF r.kind = "return"
              THEN /\ TOKEN_CACHE' = CacheSet(TOKEN_CACHE, StepScope(step), r)
                   /\ P002_StartAdapter(step, r.value)
              ELSE /\ P002_Catch(step, "token:" \o step, r.msg)
                   /\ UNCHANGED <<TOKEN_CACHE, browseToken, insightsToken, cur, sold>>
  /\ UNCHANGED <<env, now, nreq, q, tnow, et, items_current, items_sold, response,
                 TOKEN_MEMO, callers, extVars>>

\* Browse answers: items_current = cur.items; notes.push(cur.note), or the catch.
P002_CurrentReply ==
  /\ pc = "current"
  /\ \E reply \in BrowseReplies :
       LET r == searchEbayCurrent(q, reply)
       IN  IF r.threw
           THEN /\ cur' = Rejected(r.msg)
                /\ P002_Catch("browse", "current", r.msg)
                /\ UNCHANGED items_current
           ELSE /\ cur' = Resolved(r.items, r.note)
                /\ items_current' = r.items
                /\ notes' = Append(notes, r.note)
                /\ pc' = "token:insights"
                /\ UNCHANGED <<raised, fcur, fsold, calls>>
  /\ UNCHANGED <<env, now, TOKEN_CACHE, issued, nreq, q, browseToken, insightsToken,
                 tnow, res, sold, et, items_sold, response, TOKEN_MEMO, callers, extVars>>

\* Finding (current) answers; then if (!items_current.length && env.ETSY_API_KEY).
P002_FindingCurrentReply ==
  /\ pc = "finding:current"
  /\ \E reply \in FindingReplies :
       LET r == searchEbayFindingCurrent(q, reply)
           items == IF r.threw THEN items_current ELSE r.items
       IN  /\ fcur' = IF r.threw THEN Rejected(r.msg) ELSE Resolved(r.items, r.note)
           /\ raised' = IF r.threw THEN Raise("finding:current", r.msg) ELSE raised
           /\ items_current' = items
           /\ notes' = Append(notes, IF r.threw
                                     THEN "Finding current error: " \o ErrText(r.msg)
                                     ELSE r.note)
           /\ IF CascadeToEtsy(items, env)
              THEN et' = InFlight /\ calls' = Called("etsy") /\ pc' = "etsy"
              ELSE pc' = "token:insights" /\ UNCHANGED <<et, calls>>
  /\ UNCHANGED <<env, now, TOKEN_CACHE, issued, nreq, q, browseToken, insightsToken,
                 tnow, res, cur, sold, items_sold, response, fsold, TOKEN_MEMO, callers, extVars>>

\* Etsy answers: items_current = et.items; notes.push(et.note), or its catch.
P002_EtsyReply ==
  /\ pc = "etsy"
  /\ \E reply \in EtsyReplies :
       LET r == searchEtsyCurrent(q, reply)
       IN  /\ et' = IF r.threw THEN Rejected(r.msg) ELSE Resolved(r.items, r.note)
           /\ raised' = IF r.threw THEN Raise("etsy", r.msg) ELSE raised
           /\ items_current' = IF r.threw THEN items_current ELSE r.items
           /\ notes' = Append(notes, EtsyNote(r))
  /\ pc' = "token:insights"
  /\ UNCHANGED <<env, now, TOKEN_CACHE, issued, nreq, q, browseToken, insightsToken,
                 tnow, res, cur, sold, items_sold, response, calls, fcur, fsold,
                 TOKEN_MEMO, callers, extVars>>

\* The three summaries and the response.
P002_Assemble(sold_items, ns) ==
  /\ items_sold' = sold_items
  /\ notes' = ns
  /\ response' = json([items_current |-> items_current,
                       items_sold |-> sold_items,
                       stats |-> [current |-> summarize(Prices(items_current)),
                                  sold |-> summarize(Prices(sold_items)),
                                  combined |-> summarize(Prices(items_current \o sold_items))],
                       note |-> JoinNotes(ns)], 0)
  /\ pc' = "done"

\* Insights answers: items_sold = sold.items; notes.push(sold.note), or the catch.
P002_SoldReply ==
  /\ pc = "sold"
  /\ \E reply \in InsightsReplies :
       LET r == P002_searchEbaySold(q, reply)
       IN  IF r.threw
           THEN /\ sold' = Rejected(r.msg)
                /\ P002_Catch("insights", "sold", r.msg)
                /\ UNCHANGED <<items_sold, response>>
           ELSE /\ sold' = Resolved(r.items, r.note)
                /\ P002_Assemble(r.items, Append(notes, r.note))
                /\ UNCHANGED <<raised, fcur, fsold, calls>>
  /\ UNCHANGED <<env, now, TOKEN_CACHE, issued, nreq, q, browseToken, insightsToken,
                 tnow, res, cur, et, items_current, TOKEN_MEMO, callers, extVars>>

\* Finding (sold) answers, then the response.
P002_FindingSoldReply ==
  /\ pc = "finding:sold"
  /\ \E reply \in FindingReplies :
       LET r == searchEbayFindingSold(q, reply)
       IN  /\ fsold' = IF r.threw THEN Rejected(r.msg) ELSE Resolved(r.items, r.note)
           /\ raised' = IF r.threw THEN Raise("finding:sold", r.msg) ELSE raised
           /\ P002_Assemble(IF r.threw THEN items_sold ELSE r.items,
                            Append(notes, IF r.threw
                                          THEN "Finding sold error: " \o ErrText(r.msg)
                                          ELSE r.note))
  /\ UNCHANGED <<env, now, TOKEN_CACHE, issued, nreq, q, browseToken, insightsToken,
                 tnow, res, cur, sold, et, items_current, calls, fcur, TOKEN_MEMO,
                 callers, extVars>>

\* Time passes while the handler is suspended or idle.
P002_Tick ==
  /\ now + TickMs <= MaxTicks * TickMs
  /\ now' = now + TickMs
  /\ UNCHANGED <<env, TOKEN_CACHE, issued, nreq, pc>>
  /\ UNCHANGED reqVars
  /\ UNCHANGED variantVars

P002_Next ==
  \/ \E raw \in RawQueries : P002_Request(raw)
  \/ \E step \in {"browse", "insights"} : P002_TokenEnter(step)
  \/ \E step \in {"browse", "insights"} : P002_TokenReply(step)
  \/ P002_CurrentReply
  \/ P002_FindingCurrentReply
  \/ P002_EtsyReply
  \/ P002_SoldReply
  \/ P002_FindingSoldReply
  \/ P002_Tick

SpecP002 == WorkerInit /\ [][P002_Next]_vars

(***************************************************************************)
(* The /api/estimate handler with a configured Browse token and a minted   *)
(* Insights token (src/unnamed/part_000).  TOKEN_CACHE[INSIGHTS_SCOPE]     *)
(* stands for the pair EBAY_MI_TOKEN, EBAY_MI_TOKEN_EXP.                   *)
(***************************************************************************)
P000_Envs ==
  {[EBAY_CLIENT_ID |-> id, EBAY_CLIENT_SECRET |-> sec, ETSY_API_KEY |-> etsy,
    EBAY_OAUTH_TOKEN |-> oauth, EBAY_APP_ID |-> FALSE] :
   id \in BOOLEAN, sec \in BOOLEAN, etsy \in BOOLEAN, oauth \in BOOLEAN}

StatusText(status) ==
  CASE status = 401 -> "Unauthorized"
    [] status = 200 -> "OK"
    [] OTHER -> ""

\* getEbayInsightsToken up to its fetch.
getEbayInsightsTokenEnter(e, memo, t) ==
  IF memo.present /\ memo.value # "" /\ memo.exp - 60000 > t
  THEN [kind |-> "return", value |-> memo.value, msg |-> ""]
  ELSE IF ~e.EBAY_CLIENT_ID \/ ~e.EBAY_CLIENT_SECRET
  THEN [kind |-> "throw", value |-> "",
        msg |-> "Missing EBAY_CLIENT_ID or EBAY_CLIENT_SECRET"]
  ELSE [kind |-> "fetch", value |-> "", msg |-> ""]

\* getEbayInsightsToken from the reply on; t is Date.now() read after the reply.
getEbayInsightsTokenResume(t, reply) ==
  IF ~reply.ok
  THEN [kind |-> "throw", value |-> "", exp |-> 0,
        msg |-> "OAuth token error " \o ToString(reply.status) \o " "
                \o StatusText(reply.status) \o ": " \o reply.text]
  ELSE IF reply.access_token = ""
  THEN [kind |-> "throw", value |-> "", exp |-> 0,
        msg |-> "OAuth token response missing access_token"]
  ELSE [kind |-> "return", value |-> reply.access_token,
        exp |-> t + Max(ToNumber(OrElse(reply.expires_in, NumV(Int2Num(0))))[1] * 1000, 0),
        msg |-> ""]

P000_searchEbaySold(query, reply) ==
  IF ~reply.ok THEN Thrown(HttpErrorText(reply))
  ELSE LET arr == IF reply.itemSales.isArray THEN reply.itemSales.elems
                  ELSE IF reply.item_sales.isArray THEN reply.item_sales.elems
                  ELSE IF reply.items.isArray THEN reply.items.elems
                  ELSE <<>>
           rows == SelectSeq(MapSeq(SoldItem, arr), HasFinitePrice)
           note == (IF IsDigits(query) THEN "eBay Marketplace Insights (GTIN, sold)"
                    ELSE "eBay Marketplace Insights (keywords, sold)")
                   \o (IF Len(rows) # 0 THEN "" ELSE " - no parsable prices")
       IN  Result(rows, note)

\* The query is validated and, with EBAY_OAUTH_TOKEN set, pCurrent is started.
P000_Request(raw) ==
  /\ pc \in {"idle", "done"}
  /\ nreq < MaxRequests
  /\ nreq' = nreq + 1
  /\ q' = QueryParam(raw)
  /\ browseToken' = JS_NULL
  /\ insightsToken' = JS_NULL
  /\ tnow' = 0
  /\ res' = NoReply
  /\ sold' = NoPromise
  /\ et' = NoPromise
  /\ items_current' = <<>>
  /\ items_sold' = <<>>
  /\ raised' = {}
  /\ IF ~Truthy(QueryParam(raw))
     THEN /\ response' = json([error |-> "Missing query"], 400)
          /\ pc' = "done"
          /\ cur' = NoPromise
          /\ notes' = <<>>
          /\ calls' = NoCalls
     ELSE /\ response' = NoResponse
          /\ pc' = "token:insights"
          /\ IF env.EBAY_OAUTH_TOKEN
             THEN /\ cur' = InFlight
                  /\ notes' = <<>>
                  /\ calls' = [NoCalls EXCEPT !["current"] = 1]
             ELSE /\ cur' = NoPromise
                  /\ notes' = <<"EBAY_OAUTH_TOKEN not set (current)">>
                  /\ calls' = NoCalls
  /\ UNCHANGED <<env, now, TOKEN_CACHE, issued>>
  /\ UNCHANGED variantVars

\* if (miReady && miToken) pSold = searchEbaySold(...).catch(...)
P000_StartSold(token) ==
  /\ insightsToken' = token
  /\ sold' = IF Truthy(token) THEN InFlight ELSE NoPromise
  /\ calls' = [calls EXCEPT !["sold"] = @ + (IF Truthy(token) THEN 1 ELSE 0)]
  /\ pc' = "join"
  /\ UNCHANGED <<notes, raised>>

\* catch (e) { miReady = false; notes.push("eBay Insights token error: " + ...) }
P000_TokenCatch(msg) ==
  /\ notes' = Append(notes, "eBay Insights token error: " \o ErrText(msg))
  /\ raised' = Raise("token:insights", msg)
  /\ pc' = "join"
  /\ UNCHANGED <<insightsToken, sold, calls>>

P000_TokenEnter ==
  /\ pc = "token:insights"
  /\ LET r == getEbayInsightsTokenEnter(env, TOKEN_CACHE[INSIGHTS_SCOPE], now)
     IN  CASE r.kind = "return" -> P000_StartSold(r.value)
           [] r.kind = "throw" -> P000_TokenCatch(r.msg)
           [] r.kind = "fetch" ->
                /\ calls' = Called("exchange:insights")
                /\ pc' = "exchange:insights"
                /\ UNCHANGED <<insightsToken, sold, notes, raised>>
  /\ UNCHANGED <<env, now, TOKEN_CACHE, issued, nreq, q, browseToken, tnow, res, cur,
                 et, items_current, items_sold, response>>
  /\ UNCHANGED variantVars

P000_TokenReply ==
  /\ pc = "exchange:insights"
  /\ \E reply \in TokenReplies(INSIGHTS_SCOPE, issued[INSIGHTS_SCOPE] + 1) :
       LET r == getEbayInsightsTokenResume(now, reply)
       IN  /\ res' = reply
           /\ issued' = IF reply.access_token # ""
                        THEN [issued EXCEPT ![INSIGHTS_SCOPE] = @ + 1] ELSE issued
           /\ IF r.kind = "return"
              THEN /\ TOKEN_CACHE' = CacheSet(TOKEN_CACHE, INSIGHTS_SCOPE, r)
                   /\ P000_StartSold(r.value)
              ELSE /\ P000_TokenCatch(r.msg)
                   /\ UNCHANGED TOKEN_CACHE
  /\ UNCHANGED <<env, now, nreq, q, browseToken, tnow, cur, et, items_current,
                 items_sold, response>>
  /\ UNCHANGED variantVars

\* The Browse API answers pCurrent's request while the handler is suspended.
P000_CurrentReply ==
  /\ pc \in {"exchange:insights", "join"}
  /\ cur.st = "inflight"
  /\ \E reply \in BrowseReplies :
       LET r == searchEbayCurrent(q, reply)
       IN  /\ cur' = SettleCurrent(r)
           /\ raised' = IF r.threw THEN Raise("current", r.msg) ELSE raised
  /\ UNCHANGED <<env, now, TOKEN_CACHE, issued, nreq, pc, q, notes, browseToken,
                 insightsToken, tnow, res, sold, et, items_current, items_sold,
                 response, calls>>
  /\ UNCHANGED variantVars

P000_SoldReply ==
  /\ pc = "join"
  /\ sold.st = "inflight"
  /\ \E reply \in InsightsReplies :
       LET r == P000_searchEbaySold(q, reply)
       IN  /\ sold' = SettleSold(r)
           /\ raised' = IF r.threw THEN Raise("sold", r.msg) ELSE raised
  /\ UNCHANGED <<env, now, TOKEN_CACHE, issued, nreq, pc, q, notes, browseToken,
                 insightsToken, tnow, res, cur, et, items_current, items_sold,
                 response, calls>>
  /\ UNCHANGED variantVars

\* await Promise.all([pCurrent, pSold]), either of which may be null; then the
\* Etsy fallback, or the current notes and the assembly.
P000_Join ==
  /\ pc = "join"
  /\ cur.st # "inflight"
  /\ sold.st # "inflight"
  /\ IF CascadeToEtsy(ItemsOf(cur), env)
     THEN /\ items_current' = ItemsOf(cur)
          /\ calls' = Called("etsy")
          /\ et' = InFlight
          /\ pc' = "etsy"
          /\ UNCHANGED <<notes, response, items_sold>>
     ELSE /\ Assemble(ItemsOf(cur), PushIf(PushIf(notes, cur.note), cur.error))
          /\ UNCHANGED <<calls, et>>
  /\ UNCHANGED <<env, now, TOKEN_CACHE, issued, nreq, q, browseToken, insightsToken,
                 tnow, res, cur, sold, raised>>
  /\ UNCHANGED variantVars

\* Etsy answers: in the try, cur.note and et.note are pushed; in the catch,
\* the Etsy error alone.
P000_EtsyReply ==
  /\ pc = "etsy"
  /\ \E reply \in EtsyReplies :
       LET r == searchEtsyCurrent(q, reply)
       IN  /\ et' = IF r.threw THEN Rejected(r.msg) ELSE Resolved(r.items, r.note)
           /\ raised' = IF r.threw THEN Raise("etsy", r.msg) ELSE raised
           /\ IF r.threw
              THEN Assemble(items_current,
                            Append(notes, "Etsy current error: " \o ErrText(r.msg)))
              ELSE Assemble(AfterEtsy(items_current, r),
                            Append(PushIf(notes, cur.note), r.note))
  /\ UNCHANGED <<env, now, TOKEN_CACHE, issued, nreq, q, browseToken, insightsToken,
                 tnow, res, cur, sold, calls>>
  /\ UNCHANGED variantVars

P000_Next ==
  \/ \E raw \in RawQueries : P000_Request(raw)
  \/ P000_TokenEnter
  \/ P000_TokenReply
  \/ P000_CurrentReply
  \/ P000_SoldReply
  \/ P000_Join
  \/ P000_EtsyReply
  \/ Tick

P000_Init == env \in P000_Envs /\ InitialState /\ callers = <<>> /\ values = <<>> /\ payload = NoPayload

SpecP000 == P000_Init /\ [][P000_Next]_vars

(***************************************************************************)
(* Concurrent requests calling the token manager of src/src/worker.js.     *)
(* Each caller runs getEbayToken; the isolate interleaves the callers at   *)
(* the await of the credential exchange, and TOKEN_CACHE is shared.        *)
(***************************************************************************)
TokenCallers == 1..NCallers

\* A caller: where it stands, the scope it asked for, the `now` it read, and
\* what it got.  fromCache and expLeft (the cached entry's recorded expiry
\* minus the time of the read) are history.
IdleCaller ==
  [pc |-> "idle", scope |-> "", tnow |-> 0, value |-> "", exp |-> 0, n |-> 0,
   fromCache |-> FALSE, expLeft |-> 0, msg |-> ""]

CallerReturns(c, value, fromCache, expLeft) ==
  [callers EXCEPT ![c] = [@ EXCEPT !.pc = "returned", !.value = value,
                                   !.fromCache = fromCache, !.expLeft = expLeft]]
CallerThrows(c, msg) ==
  [callers EXCEPT ![c] = [@ EXCEPT !.pc = "failed", !.value = "", !.msg = msg]]

ExchangeOf(scope) ==
  IF scope = BROWSE_SCOPE THEN "exchange:browse" ELSE "exchange:insights"

tokenVars == <<nreq, pc, q, notes, browseToken, insightsToken, tnow, res, cur, sold,
               et, items_current, items_sold, response, raised, fcur, fsold, extVars>>

\* A request calls getEbayToken(env, scope): the code up to the fetch.
TokenCall(c, scope) ==
  /\ callers[c].pc \in {"idle", "returned", "failed"}
  /\ callers[c].n < MaxCalls
  /\ LET r == getEbayTokenEnter(env, TOKEN_CACHE, scope, now)
         me == [IdleCaller EXCEPT !.scope = scope, !.tnow = now,
                                  !.n = callers[c].n + 1]
         entered == [callers EXCEPT ![c] = me]
     IN  CASE r.kind = "return" ->
                /\ callers' = [entered EXCEPT ![c] =
                                 [me EXCEPT !.pc = "returned", !.value = r.value,
                                            !.fromCache = TRUE,
                                            !.expLeft = TOKEN_CACHE[scope].exp - now]]
                /\ UNCHANGED calls
           [] r.kind = "throw" ->
                /\ callers' = [entered EXCEPT ![c] =
                                 [me EXCEPT !.pc = "failed", !.msg = r.msg]]
                /\ UNCHANGED calls
           [] r.kind = "fetch" ->
                /\ callers' = [entered EXCEPT ![c] = [me EXCEPT !.pc = "exchange"]]
                /\ calls' = Called(ExchangeOf(scope))
  /\ UNCHANGED <<env, now, TOKEN_CACHE, issued, TOKEN_MEMO>>
  /\ UNCHANGED tokenVars

\* getEbayToken storing the entry before it tests the token for emptiness.
TokenAnswer_StoresFirst(c) ==
  /\ callers[c].pc = "exchange"
  /\ \E reply \in TokenReplies(callers[c].scope, issued[callers[c].scope] + 1) :
       LET r == getEbayTokenResume(callers[c].tnow, reply)
       IN  /\ issued' = IF reply.access_token # ""
                        THEN [issued EXCEPT ![callers[c].scope] = @ + 1] ELSE issued
           /\ IF r.kind = "return"
              THEN /\ TOKEN_CACHE' = CacheSet(TOKEN_CACHE, callers[c].scope, r)
                   /\ callers' = CallerReturns(c, r.value, FALSE, 0)
              ELSE /\ callers' = CallerThrows(c, r.msg)
                   /\ TOKEN_CACHE' =
                        IF reply.ok
                        THEN CacheSet(TOKEN_CACHE, callers[c].scope,
                                      [value |-> reply.access_token,
                                       exp |-> TokenExp(callers[c].tnow,
                                                        reply.expires_in)])
                        ELSE TOKEN_CACHE
  /\ UNCHANGED <<env, now, calls, TOKEN_MEMO>>
  /\ UNCHANGED tokenVars

\* The credential endpoint answers a caller's exchange.
TokenAnswer(c) ==
  /\ callers[c].pc = "exchange"
  /\ \E reply \in TokenReplies(callers[c].scope, issued[callers[c].scope] + 1) :
       LET r == getEbayTokenResume(callers[c].tnow, reply)
       IN  /\ issued' = IF reply.access_token # ""
                        THEN [issued EXCEPT ![callers[c].scope] = @ + 1] ELSE issued
           /\ IF r.kind = "return"
              THEN /\ TOKEN_CACHE' = CacheSet(TOKEN_CACHE, callers[c].scope, r)
                   /\ callers' = CallerReturns(c, r.value, FALSE, 0)
              ELSE /\ callers' = CallerThrows(c, r.msg)
                   /\ UNCHANGED TOKEN_CACHE
  /\ UNCHANGED <<env, now, calls, TOKEN_MEMO>>
  /\ UNCHANGED tokenVars

\* Time passes.
TokenTick ==
  /\ now + TickMs <= MaxTicks * TickMs
  /\ now' = now + TickMs
  /\ UNCHANGED <<env, TOKEN_CACHE, issued, calls, TOKEN_MEMO, callers>>
  /\ UNCHANGED tokenVars

TokenInit ==
  /\ env \in WorkerEnvs
  /\ InitialState
  /\ callers = [c \in TokenCallers |-> IdleCaller]
  /\ values = <<>>
  /\ payload = NoPayload

TokenNext ==
  \/ \E c \in TokenCallers, scope \in Scopes : TokenCall(c, scope)
  \/ \E c \in TokenCallers : TokenAnswer(c)
  \/ TokenTick

SpecToken == TokenInit /\ [][TokenNext]_vars

(***************************************************************************)
(* Concurrent requests calling getAppTokenCached of the Finding-based      *)
(* variant (src/unnamed/part_001).  TOKEN_MEMO is the isolate's single     *)
(* slot; TOKEN_CACHE[scope] stands for the entry of the Workers Cache API, *)
(* which carries the time until which its max-age lets it be served.       *)
(***************************************************************************)
\* TOKEN_MEMO.access_token && TOKEN_MEMO.expires_at > now + 60_000
\*   && TOKEN_MEMO.scope_key === scopes
MemoFresh(memo, scopes, t) ==
  memo.present /\ memo.token # "" /\ memo.exp > t + 60000 /\ memo.scope = scopes

\* cached && cached.ok, then data?.access_token && data?.expires_at
\*   && data.expires_at > now + 60_000: read at time `at`, `t` being the `now`
\* the call read on entry.
EdgeFresh(entry, t, at) ==
  entry.present /\ at < entry.until /\ entry.value # "" /\ entry.exp # 0
  /\ entry.exp > t + 60000

\* Math.max(60, Number(tok.expires_in || 0))
P001_ExpiresIn(expires_in) ==
  Max(60, ToNumber(OrElse(expires_in, NumV(Int2Num(0))))[1])

\* Math.max(60, Math.floor(expires_in * 0.9))
P001_TtlSec(secs) == Max(60, (secs * 9) \div 10)

\* getAppTokenCached is called: the memo test.
P001_TokenCall(c) ==
  /\ callers[c].pc \in {"idle", "returned", "failed"}
  /\ callers[c].n < MaxCalls
  /\ LET me == [IdleCaller EXCEPT !.scope = BROWSE_SCOPE, !.tnow = now,
                                  !.n = callers[c].n + 1]
     IN  callers' = [callers EXCEPT ![c] =
           IF MemoFresh(TOKEN_MEMO, BROWSE_SCOPE, now)
           THEN [me EXCEPT !.pc = "returned", !.value = TOKEN_MEMO.token,
                           !.fromCache = TRUE, !.expLeft = TOKEN_MEMO.exp - now]
           ELSE [me EXCEPT !.pc = "match"]]
  /\ UNCHANGED <<env, now, TOKEN_CACHE, issued, calls, TOKEN_MEMO>>
  /\ UNCHANGED tokenVars

\* await cache.match(keyReq) resumes: the cached token, the missing
\* credentials, or the exchange.
P001_CacheMatch(c) ==
  /\ callers[c].pc = "match"
  /\ LET entry == TOKEN_CACHE[callers[c].scope]
     IN  IF EdgeFresh(entry, callers[c].tnow, now)
         THEN /\ TOKEN_MEMO' = [present |-> TRUE, token |-> entry.value,
                                exp |-> entry.exp, scope |-> callers[c].scope]
              /\ callers' = CallerReturns(c, entry.value, TRUE, entry.exp - now)
              /\ UNCHANGED calls
         ELSE IF ~env.EBAY_CLIENT_ID \/ ~env.EBAY_CLIENT_SECRET
         THEN /\ callers' = CallerThrows(c,
                   "Browse token requested but EBAY_CLIENT_ID/EBAY_CLIENT_SECRET missing")
              /\ UNCHANGED <<calls, TOKEN_MEMO>>
         ELSE /\ callers' = [callers EXCEPT ![c].pc = "exchange"]
              /\ calls' = Called(ExchangeOf(callers[c].scope))
              /\ UNCHANGED TOKEN_MEMO
  /\ UNCHANGED <<env, now, TOKEN_CACHE, issued>>
  /\ UNCHANGED tokenVars

\* The credential endpoint answers: the failure, or TOKEN_MEMO is set and
\* cache.put is awaited.
P001_TokenAnswer(c) ==
  /\ callers[c].pc = "exchange"
  /\ \E reply \in TokenReplies(callers[c].scope, issued[callers[c].scope] + 1) :
       /\ issued' = IF reply.access_token # ""
                    THEN [issued EXCEPT ![callers[c].scope] = @ + 1] ELSE issued
       /\ IF ~reply.ok
          THEN /\ callers' = CallerThrows(c, "Token fetch failed "
                                 \o ToString(reply.status) \o ": " \o reply.text)
               /\ UNCHANGED TOKEN_MEMO
          ELSE /\ TOKEN_MEMO' = [present |-> TRUE, token |-> reply.access_token,
                                 exp |-> now + P001_ExpiresIn(reply.expires_in) * 1000,
                                 scope |-> callers[c].scope]
               /\ callers' = [callers EXCEPT ![c] =
                     [@ EXCEPT !.pc = "put", !.value = reply.access_token,
                               !.exp = now + P001_ExpiresIn(reply.expires_in) * 1000,
                               !.expLeft = P001_TtlSec(P001_ExpiresIn(reply.expires_in))]]
  /\ UNCHANGED <<env, now, TOKEN_CACHE, calls>>
  /\ UNCHANGED tokenVars

\* await cache.put(keyReq, cacheResp) resumes; return tok.access_token.
P001_CachePut(c) ==
  /\ callers[c].pc = "put"
  /\ TOKEN_CACHE' = [TOKEN_CACHE EXCEPT ![callers[c].scope] =
        [present |-> TRUE, value |-> callers[c].value, exp |-> callers[c].exp,
         until |-> now + callers[c].expLeft * 1000]]
  /\ callers' = CallerReturns(c, callers[c].value, FALSE, 0)
  /\ UNCHANGED <<env, now, issued, calls, TOKEN_MEMO>>
  /\ UNCHANGED tokenVars

\* The isolate is replaced while no request runs: its module state is lost,
\* the Cache API's entries stay.
P001_NewIsolate ==
  /\ \A c \in TokenCallers : callers[c].pc \in {"idle", "returned", "failed"}
  /\ TOKEN_MEMO # NoMemo
  /\ TOKEN_MEMO' = NoMemo
  /\ UNCHANGED <<env, now, TOKEN_CACHE, issued, calls, callers>>
  /\ UNCHANGED tokenVars

P001_TokenNext ==
  \/ \E c \in TokenCallers : P001_TokenCall(c)
  \/ \E c \in TokenCallers : P001_CacheMatch(c)
  \/ \E c \in TokenCallers : P001_TokenAnswer(c)
  \/ \E c \in TokenCallers : P001_CachePut(c)
  \/ P001_NewIsolate
  \/ TokenTick

SpecP001Token == TokenInit /\ [][P001_TokenNext]_vars

(***************************************************************************)
(* The Finding-only handler with its response cache (src/unnamed/part_003).*)
(* Both Finding calls are started together; each has its own .catch, which *)
(* pushes the branch's error note at the moment the call fails.            *)
(***************************************************************************)
TTL_MS == 900000

P003_Envs ==
  {[EBAY_CLIENT_ID |-> FALSE, EBAY_CLIENT_SECRET |-> FALSE, ETSY_API_KEY |-> FALSE,
    EBAY_OAUTH_TOKEN |-> FALSE, EBAY_APP_ID |-> app] : app \in BOOLEAN}

\* String(v) for the scalars of a payload.
JSString(v) ==
  CASE v.t = "undefined" -> "undefined"
    [] v.t = "string" -> v.s
    [] v.t = "number" -> IF v.n[2] = 1 THEN ToString(v.n[1]) ELSE "NaN"

\* What the Finding service may answer: a body that is not JSON, a body with
\* an embedded error (its first one is modelled: the code reads error[0]), a
\* search result.
FindingNotJson(text) ==
  [json |-> FALSE, text |-> text, hasError |-> FALSE, errorId |-> Undef,
   message |-> Undef, item |-> <<>>]
FindingError(errorId, message) ==
  [json |-> TRUE, text |-> "", hasError |-> TRUE, errorId |-> errorId,
   message |-> message, item |-> <<>>]
FindingOk(item) ==
  [json |-> TRUE, text |-> "", hasError |-> FALSE, errorId |-> Undef,
   message |-> Undef, item |-> item]

P003_FindingReplies ==
  {FindingNotJson("<html>"),
   FindingError(Str("10001"), Str("call limit")),
   FindingError(Str("11002"), Str("bad app id")),
   FindingError(Undef, Str("100010")),
   FindingOk(<<[title |-> "Bear F", currentPrice |-> Str("25")],
               [title |-> "Bear G", currentPrice |-> Undef]>>)}

\* A classification that knows no rate-limit code.
IsRateLimitCode_None(code) == FALSE

\* code === "10001"
IsRateLimitCode(code) == code = "10001"

P003_Thrown(msg, rateLimited) ==
  [threw |-> TRUE, msg |-> msg, rateLimited |-> rateLimited, data |-> <<>>]

\* ebayFinding(op, params, appId), from the service's reply on.
ebayFinding(reply) ==
  IF ~reply.json THEN P003_Thrown("Finding parse error: " \o reply.text, FALSE)
  ELSE IF reply.hasError
  THEN LET code == JSString(OrElse(reply.errorId, Str("")))
           msg == JSString(OrElse(reply.message, Str("")))
       IN  IF IsRateLimitCode(code)
           THEN P003_Thrown("Finding rate limit: " \o msg, TRUE)
           ELSE P003_Thrown("Finding error " \o code \o ": " \o msg, FALSE)
  ELSE [threw |-> FALSE, msg |-> "", rateLimited |-> FALSE, data |-> reply.item]

\* mapFindingItems(arr, sourceTag)
mapFindingItems(arr, sourceTag) ==
  LET item(it) == [title |-> it.title, price |-> FindingPrice(it), source |-> sourceTag]
  IN  SelectSeq([k \in 1..Len(arr) |-> item(arr[k])], HasFinitePrice)

\* searchFindingCurrent / searchFindingSold with the branch's .catch:
\* what the promise resolves to and what the .catch pushes to notes.
P003_Branch(branch, reply) ==
  LET r == ebayFinding(reply)
  IN  IF r.threw
      THEN [promise |-> Resolved(<<>>, ""),
            pushed |-> IF r.rateLimited
                       THEN <<"Finding " \o branch \o ": rate-limited">>
                       ELSE <<"Finding " \o branch \o " error: " \o r.msg>>,
            raised |-> {[step |-> "finding:" \o branch, msg |-> r.msg,
                         rateLimited |-> r.rateLimited]}]
      ELSE [promise |-> Resolved(mapFindingItems(r.data, "ebay_" \o branch \o "_finding"),
                                 "eBay Finding (" \o branch \o ")"),
            pushed |-> <<>>,
            raised |-> {}]

\* {}
EmptyObject == <<>>

\* The payload returned when EBAY_APP_ID is not set.
P003_NotConfigured ==
  json([items_current |-> <<>>, items_sold |-> <<>>,
        stats |-> [current |-> EmptyObject, sold |-> EmptyObject,
                   combined |-> EmptyObject],
        note |-> "EBAY_APP_ID not set"], 500)

\* A lookup that still hits at the very end of the lifetime.
P003_CacheHit_Inclusive(cache, query, t) == query \in DOMAIN cache /\ cache[query].exp >= t

\* cached && cached.exp > now
P003_CacheHit(cache, query, t) == query \in DOMAIN cache /\ cache[query].exp > t

\* A handler that stores a payload only when it carries an item.
P003_CacheSet_OnlyWithItems(cache, query, t, body) ==
  IF body.items_current = <<>> /\ body.items_sold = <<>>
  THEN cache
  ELSE [k \in DOMAIN cache \cup {query} |->
          IF k = query THEN [exp |-> t + TTL_MS, payload |-> body, at |-> now]
          ELSE cache[k]]

\* CACHE.set(cacheKey, { exp: now + TTL_MS, payload }), where now is the
\* handler's constant, read when the request arrived.  The field at is
\* history: the time at which the payload was computed and stored.
P003_CacheSet(cache, query, t, body) ==
  [k \in DOMAIN cache \cup {query} |->
     IF k = query THEN [exp |-> t + TTL_MS, payload |-> body, at |-> now] ELSE cache[k]]

\* A request arrives: query and configuration checks, the cache lookup, and
\* on a miss the two Finding calls are started.
P003_Request(raw) ==
  /\ pc \in {"idle", "done"}
  /\ nreq < MaxRequests
  /\ nreq' = nreq + 1
  /\ notes' = <<>>
  /\ raised' = {}
  /\ items_current' = <<>>
  /\ items_sold' = <<>>
  /\ tnow' = now
  /\ LET query == IF raw = JS_NULL THEN "" ELSE Trim(raw)
         miss == query # "" /\ env.EBAY_APP_ID /\ ~P003_CacheHit(CACHE, query, now)
     IN  /\ q' = query
         /\ response' = IF query = "" THEN json([error |-> "Missing query"], 400)
                        ELSE IF ~env.EBAY_APP_ID THEN P003_NotConfigured
                        ELSE IF P003_CacheHit(CACHE, query, now)
                        THEN json(CACHE[query].payload, 0)
                        ELSE NoResponse
         /\ pc' = IF miss THEN "join" ELSE "done"
         /\ fcur' = IF miss THEN InFlight ELSE NoPromise
         /\ fsold' = IF miss THEN InFlight ELSE NoPromise
         /\ calls' = IF miss
                     THEN [NoCalls EXCEPT !["finding:current"] = 1, !["finding:sold"] = 1]
                     ELSE NoCalls
  /\ UNCHANGED <<env, now, TOKEN_CACHE, issued, browseToken, insightsToken, res, cur,
                 sold, et, TOKEN_MEMO, callers, extVars>>

\* The Finding service answers one of the two calls; its .catch runs if the
\* call failed.
P003_FindingReply(branch) ==
  /\ pc = "join"
  /\ (IF branch = "current" THEN fcur ELSE fsold).st = "inflight"
  /\ \E reply \in P003_FindingReplies :
       LET b == P003_Branch(branch, reply)
       IN  /\ IF branch = "current"
              THEN fcur' = b.promise /\ UNCHANGED fsold
              ELSE fsold' = b.promise /\ UNCHANGED fcur
           /\ notes' = notes \o b.pushed
           /\ raised' = raised \cup b.raised
  /\ UNCHANGED <<env, now, TOKEN_CACHE, issued, nreq, pc, q, browseToken,
                 insightsToken, tnow, res, cur, sold, et, items_current, items_sold,
                 response, calls, TOKEN_MEMO, callers, extVars>>

\* Promise.all has resolved: the items, the notes of the calls that
\* succeeded, the summaries, the cache entry and the response.
P003_Join ==
  /\ pc = "join"
  /\ fcur.st = "done" /\ fsold.st = "done"
  /\ LET all_notes == PushIf(PushIf(notes, fcur.note), fsold.note)
         body == [items_current |-> fcur.items,
                  items_sold |-> fsold.items,
                  stats |-> [current |-> summarize(Prices(fcur.items)),
                             sold |-> summarize(Prices(fsold.items)),
                             combined |-> summarize(Prices(fcur.items \o fsold.items))],
                  note |-> JoinNotes(all_notes)]
     IN  /\ items_current' = fcur.items
         /\ items_sold' = fsold.items
         /\ notes' = all_notes
         /\ CACHE' = P003_CacheSet(CACHE, q, tnow, body)
         /\ response' = json(body, 0)
  /\ pc' = "done"
  /\ UNCHANGED <<env, now, TOKEN_CACHE, issued, nreq, q, browseToken, insightsToken,
                 tnow, res, cur, sold, et, raised, calls, fcur, fsold, TOKEN_MEMO,
                 callers, payload, values, summary, runs, pageVars>>

\* Time passes, half a cache lifetime at a time: between requests, and
\* while the two Finding calls of a request are in flight.  Date.now() is
\* read once, when the request arrives.
P003_Tick ==
  /\ \/ pc \in {"idle", "done"}
     \/ pc = "join" /\ fcur.st = "inflight" /\ fsold.st = "inflight"
  /\ now + (TTL_MS \div 2) <= (MaxTicks + 1) * (TTL_MS \div 2)
  /\ now' = now + (TTL_MS \div 2)
  /\ UNCHANGED <<env, TOKEN_CACHE, issued, nreq, pc>>
  /\ UNCHANGED reqVars
  /\ UNCHANGED variantVars

\* The raw ?query= values of a request: absent, blank, and two spellings of
\* the same keywords.
P003_RawQueries == {JS_NULL, " ", " bear ", "bear"}

P003_Next ==
  \/ \E raw \in P003_RawQueries : P003_Request(raw)
  \/ \E branch \in {"current", "sold"} : P003_FindingReply(branch)
  \/ P003_Join
  \/ P003_Tick

P003_Init ==
  /\ env \in P003_Envs
  /\ InitialState
  /\ callers = <<>>
  /\ values = <<>>
  /\ payload = NoPayload

SpecP003 == P003_Init /\ [][P003_Next]_vars

(***************************************************************************)
(* The Etsy-first /api/estimate handler (src/unnamed/part_002, second      *)
(* module): Etsy active listings, then eBay Browse with a configured       *)
(* bearer token when Etsy gave nothing.  items is kept in items_current,   *)
(* the Etsy call in et and the eBay call in cur.                           *)
(***************************************************************************)
EF_Envs ==
  {[EBAY_CLIENT_ID |-> FALSE, EBAY_CLIENT_SECRET |-> FALSE, ETSY_API_KEY |-> etsy,
    EBAY_OAUTH_TOKEN |-> oauth, EBAY_APP_ID |-> FALSE] :
   etsy \in BOOLEAN, oauth \in BOOLEAN}

\* Etsy's replies to the Etsy-first handler: those of EtsyReplies, a reply
\* with its records under listings, and one whose only record has no price.
EF_EtsyReplies ==
  EtsyReplies \cup
  {EtsyOk(NotArray, Arr(<<RawEtsy("Etsy bear 3", NoMoney,
                                  Money(NumV(Int2Num(700)), NumV(Int2Num(100))))>>)),
   EtsyOk(Arr(<<RawEtsy("Etsy bear 4", MoneyStr("n/a"), NoMoney)>>), NotArray)}

\* eBay's replies to the Etsy-first handler: those of BrowseReplies and a
\* reply whose record has a price of 0 and a bid.
EF_EbayReplies ==
  BrowseReplies \cup
  {BrowseOk(Arr(<<RawCurrent("Bear E", NumV(Int2Num(0)), Str("7"))>>))}

EF_EtsyItem(it) == [title |-> it.title, price |-> EtsyPrice(it), source |-> "etsy"]

EF_searchEtsy(reply) ==
  IF ~reply.ok THEN Thrown(HttpErrorText(reply))
  ELSE LET results == IF reply.results.isArray THEN reply.results.elems
                      ELSE IF reply.listings.isArray THEN reply.listings.elems
                      ELSE <<>>
           items == SelectSeq(MapSeq(EF_EtsyItem, results), HasFinitePrice)
       IN  Result(items, "Etsy active listings (keywords)")

EF_EbayItem(it) == [title |-> it.title, price |-> CurrentPrice(it), source |-> "ebay"]

EF_searchEbay(query, reply) ==
  IF ~reply.ok THEN Thrown(HttpErrorText(reply))
  ELSE LET summaries == IF reply.itemSummaries.isArray
                        THEN reply.itemSummaries.elems ELSE <<>>
           items == SelectSeq(MapSeq(EF_EbayItem, summaries), HasFinitePrice)
       IN  Result(items, IF IsDigits(query) THEN "eBay GTIN" ELSE "eBay keywords")

\* A fallback that asks eBay whatever Etsy returned.
EF_FallbackToEbay_Always(items, e) == e.EBAY_OAUTH_TOKEN

\* if (!items.length && env.EBAY_OAUTH_TOKEN)
EF_FallbackToEbay(items, e) == Len(items) = 0 /\ e.EBAY_OAUTH_TOKEN

EF_Frame ==
  <<env, now, TOKEN_CACHE, issued, browseToken, insightsToken, tnow, res, sold,
    items_sold>>

\* A request arrives: the query check, then the Etsy call when ETSY_API_KEY
\* is set, else its note and the fallback test.
EF_Request(raw) ==
  /\ pc \in {"idle", "done"}
  /\ nreq < MaxRequests
  /\ nreq' = nreq + 1
  /\ q' = QueryParam(raw)
  /\ raised' = {}
  /\ IF ~Truthy(QueryParam(raw))
     THEN /\ response' = json([error |-> "Missing query"], 400)
          /\ pc' = "done"
          /\ calls' = NoCalls
          /\ et' = NoPromise /\ cur' = NoPromise
          /\ items_current' = <<>> /\ notes' = <<>>
     ELSE IF env.ETSY_API_KEY
     THEN /\ et' = InFlight
          /\ calls' = [NoCalls EXCEPT !["etsy"] = 1]
          /\ pc' = "etsy"
          /\ response' = NoResponse
          /\ cur' = NoPromise
          /\ items_current' = <<>> /\ notes' = <<>>
     ELSE /\ et' = NoPromise
          /\ calls' = IF EF_FallbackToEbay(<<>>, env)
                      THEN [NoCalls EXCEPT !["current"] = 1] ELSE NoCalls
          /\ items_current' = <<>>
          /\ notes' = <<"ETSY_API_KEY not set">>
          /\ IF EF_FallbackToEbay(<<>>, env)
             THEN cur' = InFlight /\ pc' = "ebay" /\ response' = NoResponse
             ELSE /\ cur' = NoPromise
                  /\ pc' = "done"
                  /\ response' = json([items |-> <<>>, note |-> "ETSY_API_KEY not set"], 0)
  /\ UNCHANGED EF_Frame
  /\ UNCHANGED variantVars

\* Etsy answers: the try/catch around searchEtsy, then the fallback test.
EF_EtsyReply ==
  /\ pc = "etsy"
  /\ \E reply \in EF_EtsyReplies :
       LET r == EF_searchEtsy(reply)
           items == IF ~r.threw /\ Len(r.items) # 0 THEN r.items ELSE items_current
           ns == Append(notes, IF r.threw THEN "Etsy error: " \o ErrText(r.msg) ELSE r.note)
       IN  /\ et' = IF r.threw THEN Rejected(r.msg) ELSE Resolved(r.items, r.note)
           /\ raised' = IF r.threw THEN Raise("etsy", r.msg) ELSE raised
           /\ items_current' = items
           /\ notes' = ns
           /\ IF EF_FallbackToEbay(items, env)
              THEN /\ cur' = InFlight
                   /\ calls' = Called("current")
                   /\ pc' = "ebay"
                   /\ response' = NoResponse
              ELSE /\ cur' = NoPromise
                   /\ calls' = calls
                   /\ pc' = "done"
                   /\ response' = json([items |-> items, note |-> JoinNotes(ns)], 0)
  /\ UNCHANGED <<nreq, q>>
  /\ UNCHANGED EF_Frame
  /\ UNCHANGED variantVars

\* eBay answers: the try/catch around searchEbay, then the response.
EF_EbayReply ==
  /\ pc = "ebay"
  /\ \E reply \in EF_EbayReplies :
       LET r == EF_searchEbay(q, reply)
           items == IF ~r.threw /\ Len(r.items) # 0 THEN r.items ELSE items_current
           ns == Append(notes, IF r.threw THEN "eBay error: " \o ErrText(r.msg) ELSE r.note)
       IN  /\ cur' = IF r.threw THEN Rejected(r.msg) ELSE Resolved(r.items, r.note)
           /\ raised' = IF r.threw THEN Raise("current", r.msg) ELSE raised
           /\ items_current' = items
           /\ notes' = ns
           /\ response' = json([items |-> items, note |-> JoinNotes(ns)], 0)
  /\ pc' = "done"
  /\ UNCHANGED <<nreq, q, et, calls>>
  /\ UNCHANGED EF_Frame
  /\ UNCHANGED variantVars

EF_Next ==
  \/ \E raw \in RawQueries : EF_Request(raw)
  \/ EF_EtsyReply
  \/ EF_EbayReply

EF_Init ==
  /\ env \in EF_Envs
  /\ InitialState
  /\ callers = <<>>
  /\ values = <<>>
  /\ payload = NoPayload

SpecEF == EF_Init /\ [][EF_Next]_vars

(***************************************************************************)
(* The statistics engine on its own: summarize applied to any series of    *)
(* at most MaxLen numbers, finite or not.                                  *)
(***************************************************************************)
\* The numbers a series is made of: NaN, Infinity, ordinary prices, and prices
\* in the upper half of the finite range.
SeriesValues ==
  {NaN, PosInf, Int2Num(1), Int2Num(2), Rat(15, 2), Int2Num(MAX_VALUE - 1),
   Int2Num(1 - MAX_VALUE)}

RECURSIVE SeriesOfLen(_)
SeriesOfLen(n) ==
  IF n = 0 THEN {<<>>}
  ELSE {Append(s, v) : s \in SeriesOfLen(n - 1), v \in SeriesValues}

Series == UNION {SeriesOfLen(n) : n \in 0..MaxLen}

SummarizeInit ==
  /\ env \in {e \in WorkerEnvs : e.EBAY_CLIENT_ID /\ e.EBAY_CLIENT_SECRET /\ e.ETSY_API_KEY}
  /\ InitialState
  /\ callers = <<>>
  /\ values \in Series
  /\ payload = NoPayload

\* A call that sorts its argument where it stands: values.sort(...) with no
\* filter before it.
Summarize_SortInPlace ==
  /\ runs < MaxCalls
  /\ summary' = summarize(values)
  /\ values' = SortAsc(values)
  /\ runs' = runs + 1
  /\ UNCHANGED <<env, now, TOKEN_CACHE, issued, nreq, pc, CACHE, payload>>
  /\ UNCHANGED reqVars
  /\ UNCHANGED <<fcur, fsold, TOKEN_MEMO, callers, pageVars>>

\* const stats = summarize(values), called again and again on one array.
\* values.filter(...) returns a new array and sort works on that one, so the
\* caller's array is what it was; the function reads nothing but its argument.
Summarize ==
  /\ runs < MaxCalls
  /\ summary' = summarize(values)
  /\ values' = values
  /\ runs' = runs + 1
  /\ UNCHANGED <<env, now, TOKEN_CACHE, issued, nreq, pc, CACHE, payload>>
  /\ UNCHANGED reqVars
  /\ UNCHANGED <<fcur, fsold, TOKEN_MEMO, callers, pageVars>>

SummarizeNext == Summarize

SpecSummarize == SummarizeInit /\ [][SummarizeNext]_vars

(***************************************************************************)
(* The adapters of src/src/worker.js on their own: each applied to any     *)
(* payload of at most MaxRecords raw records.                              *)
(***************************************************************************)
\* What a price field of an eBay record may hold: nothing, an empty string,
\* text, a decimal string, the number 0, a number too large for a double.
PriceFields == {Undef, Str("free"), Str("30"), NumV(Int2Num(0)), NumV(PosInf)}

RawCurrentRecords ==
  {RawCurrent("Bear", price, bid) :
     price \in PriceFields, bid \in {Undef, Str(""), Str("12")}}

RawSoldRecords ==
  {RawSold("Bear", price, soldPrice, lastSoldPrice, rest[1], rest[2]) :
     price \in {Undef, Str("free"), Str("8")},
     soldPrice \in {Undef, NumV(PosInf)},
     lastSoldPrice \in {Undef, Str("14")},
     rest \in {<<Undef, Undef>>, <<Str("n/a"), Str("3")>>}}

RawEtsyRecords ==
  {RawEtsy("Bear", price, original_price) :
     price \in {NoMoney, MoneyStr("20"), MoneyStr("n/a"),
                Money(Str("1000"), NumV(Int2Num(100))),
                Money(Str("5"), NumV(Int2Num(0))),
                Money(Str("abc"), NumV(Int2Num(1)))},
     original_price \in {NoMoney, Money(NumV(Int2Num(700)), NumV(Int2Num(100)))}}

RECURSIVE PayloadsOfLen(_, _)
PayloadsOfLen(records, n) ==
  IF n = 0 THEN {<<>>}
  ELSE {Append(s, r) : s \in PayloadsOfLen(records, n - 1), r \in records}

Payloads(kind, records) ==
  {[kind |-> kind, records |-> s] :
     s \in UNION {PayloadsOfLen(records, n) : n \in 0..MaxRecords}}

AdaptersInit ==
  /\ env \in {e \in WorkerEnvs : e.EBAY_CLIENT_ID /\ e.EBAY_CLIENT_SECRET /\ e.ETSY_API_KEY}
  /\ InitialState
  /\ callers = <<>>
  /\ values = <<>>
  /\ payload \in Payloads("browse", RawCurrentRecords)
            \cup Payloads("insights", RawSoldRecords)
            \cup Payloads("etsy", RawEtsyRecords)

adapterFrame ==
  <<env, now, TOKEN_CACHE, issued, nreq, pc, q, notes, browseToken, insightsToken,
    tnow, res, items_current, items_sold, response, raised, calls, fcur, fsold,
    TOKEN_MEMO, callers, CACHE, payload, values, summary, runs, pageVars>>

AsPromise(r) == IF r.threw THEN Rejected(r.msg) ELSE Resolved(r.items, r.note)

\* searchEbayCurrent over a 200 reply carrying the payload as itemSummaries.
AdaptCurrent ==
  /\ payload.kind = "browse"
  /\ cur.st = "none"
  /\ cur' = AsPromise(searchEbayCurrent("bear", BrowseOk(Arr(payload.records))))
  /\ UNCHANGED <<sold, et>>
  /\ UNCHANGED adapterFrame

\* searchEbaySold over a 200 reply carrying the payload as itemSales.
AdaptSold ==
  /\ payload.kind = "insights"
  /\ sold.st = "none"
  /\ sold' = AsPromise(searchEbaySold("bear",
                         InsightsOk(Arr(payload.records), NotArray, NotArray)))
  /\ UNCHANGED <<cur, et>>
  /\ UNCHANGED adapterFrame

\* searchEtsyCurrent over a 200 reply carrying the payload as results.
AdaptEtsy ==
  /\ payload.kind = "etsy"
  /\ et.st = "none"
  /\ et' = AsPromise(searchEtsyCurrent("bear", EtsyOk(Arr(payload.records), NotArray)))
  /\ UNCHANGED <<cur, sold>>
  /\ UNCHANGED adapterFrame

AdaptersNext == AdaptCurrent \/ AdaptSold \/ AdaptEtsy

SpecAdapters == AdaptersInit /\ [][AdaptersNext]_vars

(***************************************************************************)
(* The page (src/public/camera.js).  The worker is not part of these       *)
(* specifications: its variables keep the values of a worker just loaded,  *)
(* and now is the browser's Date.now().                                    *)
(***************************************************************************)
serverVars == <<env, TOKEN_CACHE, issued, nreq, pc, reqVars, fcur, fsold, TOKEN_MEMO,
                callers, CACHE, payload, values, summary, runs>>

NoEnv == [EBAY_CLIENT_ID |-> FALSE, EBAY_CLIENT_SECRET |-> FALSE, ETSY_API_KEY |-> FALSE,
          EBAY_OAUTH_TOKEN |-> FALSE, EBAY_APP_ID |-> FALSE]

ServerUnused ==
  ModuleState /\ env = NoEnv /\ callers = <<>> /\ values = <<>> /\ payload = NoPayload

(***************************************************************************)
(* Logger.  _q holds the number of queued entries (the cap does not look   *)
(* at what an entry says), flying the sizes of the batches whose POST has  *)
(* not been answered.  bursts, accepted and posted are history: the tasks  *)
(* that called write so far, and the entries pushed to _q and handed to    *)
(* fetch since _minuteStart was last set.                                  *)
(***************************************************************************)
LOG_LEVELS == [l \in {"log", "warn", "error"} |->
                 IF l = "log" THEN 10 ELSE IF l = "warn" THEN 20 ELSE 30]
LOG_BATCH_MS == 1500
LOG_MAX_PER_MIN == 60
MINUTE_MS == 60000

\* A task of the page calls write once or several times in a row; no timer
\* fires and no POST is answered in between.  The numbers of calls a task
\* makes, the tasks, the batches in flight and the time that are followed.
BurstSizes == {1, LOG_MAX_PER_MIN}
MaxBursts == 3
MaxFlying == 1
LoggerHorizon == MINUTE_MS + LOG_BATCH_MS

LoggerLoaded(debug) ==
  [loaded |-> TRUE, DEBUG |-> debug, LEVEL |-> LOG_LEVELS["warn"],
   _q |-> 0, _timer |-> FALSE, due |-> 0, _minuteStart |-> 0, _sentThisMinute |-> 0,
   flying |-> <<>>, bursts |-> 0, accepted |-> 0, posted |-> 0]

\* A write that tests the cap against the entries accepted, not the entries sent.
write_CountsAccepted(L, level, t) ==
  LET rolled == t - L._minuteStart >= MINUTE_MS
      capped == IF rolled
                THEN [L EXCEPT !._minuteStart = t, !._sentThisMinute = 0,
                               !.accepted = 0, !.posted = 0]
                ELSE L
  IN  IF ~L.DEBUG THEN L
      ELSE IF LOG_LEVELS[level] < L.LEVEL THEN L
      ELSE IF capped.accepted >= LOG_MAX_PER_MIN THEN capped
      ELSE [capped EXCEPT !._q = @ + 1,
                          !.accepted = @ + 1,
                          !._timer = TRUE,
                          !.due = IF capped._timer THEN @ ELSE t + LOG_BATCH_MS]

\* Logger.write(level, msg, meta) at time t, with _scheduleFlush: the
\* Logger it leaves.
write(L, level, t) ==
  LET rolled == t - L._minuteStart >= MINUTE_MS
      capped == IF rolled
                THEN [L EXCEPT !._minuteStart = t, !._sentThisMinute = 0,
                               !.accepted = 0, !.posted = 0]
                ELSE L
  IN  IF ~L.DEBUG THEN L
      ELSE IF LOG_LEVELS[level] < L.LEVEL THEN L
      ELSE IF capped._sentThisMinute >= LOG_MAX_PER_MIN THEN capped
      ELSE [capped EXCEPT !._q = @ + 1,
                          !.accepted = @ + 1,
                          !._timer = TRUE,
                          !.due = IF capped._timer THEN @ ELSE t + LOG_BATCH_MS]

\* n calls of write in a row.
RECURSIVE WriteTimes(_, _, _, _)
WriteTimes(L, level, t, n) ==
  IF n = 0 THEN L
  ELSE IF n % 2 = 1
  THEN Only({WriteTimes(after, level, t, n - 1) : after \in {write(L, level, t)}})
  ELSE Only({WriteTimes(half, level, t, n \div 2) :
             half \in {WriteTimes(L, level, t, n \div 2)}})

\* A task calls Logger.write n times.
Write(level, n) ==
  /\ Logger.loaded
  /\ Logger.bursts < MaxBursts
  /\ Logger' = [WriteTimes(Logger, level, now, n) EXCEPT !.bursts = @ + 1]
  /\ UNCHANGED <<now, wrapper, els, scanned>>
  /\ UNCHANGED serverVars

\* The batch timer fires: Logger._flush up to its await.
Flush ==
  /\ Logger.loaded
  /\ Logger._timer
  /\ now >= Logger.due
  /\ Len(Logger.flying) < MaxFlying
  /\ Logger' =
       IF Logger._q = 0 THEN [Logger EXCEPT !._timer = FALSE]
       ELSE [Logger EXCEPT !._timer = FALSE,
                           !._q = 0,
                           !.flying = Append(@, Logger._q),
                           !.posted = @ + Logger._q]
  /\ UNCHANGED <<now, wrapper, els, scanned>>
  /\ UNCHANGED serverVars

\* The POST to /log is answered, or fails: Logger._flush from its await on.
Flushed ==
  /\ Logger.loaded
  /\ Logger.flying # <<>>
  /\ \E ok \in BOOLEAN :
       Logger' = [Logger EXCEPT !.flying = Tail(@),
                                !._sentThisMinute =
                                   IF ok THEN @ + Head(Logger.flying) ELSE @]
  /\ UNCHANGED <<now, wrapper, els, scanned>>
  /\ UNCHANGED serverVars

\* Time passes: up to the time the batch timer is due, or a minute.
LoggerTick ==
  /\ Logger.loaded
  /\ \E t \in {now + MINUTE_MS} \cup {Logger.due : b \in {Logger._timer} \ {FALSE}} :
       /\ t > now
       /\ t <= LoggerHorizon
       /\ now' = t
  /\ UNCHANGED pageVars
  /\ UNCHANGED serverVars

LoggerInit ==
  /\ ServerUnused
  /\ \E debug \in BOOLEAN : Logger = LoggerLoaded(debug)
  /\ wrapper = NoWrapper /\ els = NoEls /\ scanned = NoScan

LoggerNext ==
  \/ \E level \in DOMAIN LOG_LEVELS, n \in BurstSizes : Write(level, n)
  \/ Flush
  \/ Flushed
  \/ LoggerTick

SpecLogger == LoggerInit /\ [][LoggerNext]_vars

(***************************************************************************)
(* GTIN validation: isValidGTIN and acceptScannedCode on a code of their   *)
(* own.  scanned.digits is history: the digits the raw text was written    *)
(* from, before separators were put in.                                    *)
(***************************************************************************)
\* s.replace(/\D/g, "")
RECURSIVE StripNonDigits(_)
StripNonDigits(s) ==
  IF s = "" THEN ""
  ELSE IF IsDigitChar(SubSeq(s, 1, 1)) THEN SubSeq(s, 1, 1) \o StripNonDigits(Tail(s))
  ELSE StripNonDigits(Tail(s))

\* String(code || "")
CodeText(code) == IF code = JS_NULL THEN "" ELSE code

\* for (let i = digits.length - 1; i >= 0; i--) { sum += digits[i] * mul;
\* mul = mul === 3 ? 1 : 3; }, over the digits of s before position i + 1.
RECURSIVE GtinSum(_, _, _, _)
GtinSum(s, i, sum, mul) ==
  IF i = 0 THEN sum
  ELSE GtinSum(s, i - 1, sum + DigitVal(SubSeq(s, i, i)) * mul, IF mul = 3 THEN 1 ELSE 3)

\* A checksum whose weights start with 1 at the rightmost digit.
isValidGTIN_WeightOneFirst(code) ==
  LET s == StripNonDigits(CodeText(code))
      L == Len(s)
  IN  IF L # 8 /\ L # 12 /\ L # 13 /\ L # 14 THEN FALSE
      ELSE LET check == DigitVal(SubSeq(s, L, L))
               sum == GtinSum(s, L - 1, 0, 1)
               cd == (10 - (sum % 10)) % 10
           IN  cd = check

isValidGTIN(code) ==
  LET s == StripNonDigits(CodeText(code))
      L == Len(s)
  IN  IF L # 8 /\ L # 12 /\ L # 13 /\ L # 14 THEN FALSE
      ELSE LET check == DigitVal(SubSeq(s, L, L))
               sum == GtinSum(s, L - 1, 0, 3)
               cd == (10 - (sum % 10)) % 10
           IN  cd = check

\* acceptScannedCode(raw): the normalized numeric string or null.
acceptScannedCode(raw) ==
  LET s == StripNonDigits(CodeText(raw))
  IN  IF ~isValidGTIN(s) THEN JS_NULL
      ELSE IF Len(s) >= 12 THEN s
      ELSE IF Len(s) = 8 THEN s ELSE JS_NULL

\* The codes handed in: a lead of 2 to 8 digits, a body of BodyLen digits
\* and a last digit, 8, 9, 10, 12, 13 or 14 digits in all, written plain,
\* with separators, or with a letter in front; the empty text and null.
BodyLen == 5
BodyDigits == {"0", "3", "9"}
RECURSIVE DigitStrings(_)
DigitStrings(n) ==
  IF n = 0 THEN {""} ELSE {d \o rest : d \in BodyDigits, rest \in DigitStrings(n - 1)}
Leads == {"40", "401", "4012", "036000", "4006381", "10012345"}
Written(lead, rest) == {lead \o rest, lead \o "-" \o rest \o " ", "x" \o lead \o rest}

ScanInit ==
  /\ ServerUnused
  /\ Logger = NoLogger /\ wrapper = NoWrapper /\ els = NoEls
  /\ \/ \E lead \in Leads, body \in DigitStrings(BodyLen), k \in 1..10 :
          \E raw \in Written(lead, body \o Digits[k]) :
            scanned = [raw |-> raw, called |-> FALSE,
                       digits |-> lead \o body \o Digits[k],
                       valid |-> FALSE, accepted |-> JS_NULL]
     \/ \E raw \in {"", JS_NULL} :
          scanned = [raw |-> raw, called |-> FALSE, digits |-> "",
                     valid |-> FALSE, accepted |-> JS_NULL]

\* isValidGTIN(raw) and acceptScannedCode(raw) are called.
Scan ==
  /\ ~scanned.called
  /\ scanned' = [scanned EXCEPT !.called = TRUE,
                                !.valid = isValidGTIN(scanned.raw),
                                !.accepted = acceptScannedCode(scanned.raw)]
  /\ UNCHANGED <<now, Logger, wrapper, els>>
  /\ UNCHANGED serverVars

ScanNext == Scan

SpecScan == ScanInit /\ [][ScanNext]_vars

(***************************************************************************)
(* QuaggaWrapper (src/public/camera.js): init, the callback of Quagga.init, *)
(* the init timer, stop and the detection handler.  Quagga is loaded, so    *)
(* the await of waitForQuagga resumes within the task that called init.     *)
(* running and handlers are Quagga's own state: started or stopped, and    *)
(* the number of onDetected handlers registered.  inits holds one record   *)
(* per call of init: where its promise stands and when its timer is due.   *)
(* stopped, hit, nhits and seen are history: stop has returned and init    *)
(* has not been called since; the last code handed to onHit and when; the  *)
(* number of codes handed to onHit; the number of detections.              *)
(***************************************************************************)
INIT_TIMEOUT_MS == 12000
DEDUPE_MS == 1200
MaxInits == 2
MaxDetections == 3
MaxScanTicks == 3
DetectStep == DEDUPE_MS \div 2
NoHit == [code |-> "", at |-> 0]
DetectedCodes == {"036000291452", "4006381333931", "0360-0029-1452", "036000291453", ""}

WrapperLoaded ==
  [loaded |-> TRUE, active |-> FALSE, eventsAttached |-> FALSE,
   _lastCode |-> "", _lastAt |-> 0,
   running |-> FALSE, handlers |-> 0, inits |-> <<>>,
   stopped |-> FALSE, hit |-> NoHit, nhits |-> 0, seen |-> 0]

\* The hand-over at the end of _onDetected: flash, vibrate, this.onHit(code).
Deliver(w, code, t) ==
  [w EXCEPT !._lastCode = code, !._lastAt = t,
            !.hit = [code |-> code, at |-> t], !.nhits = w.nhits + 1]

\* A handler that hands over every valid code it is given.
onDetected_NoDedupe(w, raw, t) ==
  LET code == acceptScannedCode(raw)
  IN  IF code = JS_NULL \/ code = "" THEN w
      ELSE Deliver(w, code, t)

\* A handler that hands over whatever digits it is given.
onDetected_NoChecksum(w, raw, t) ==
  LET code == StripNonDigits(CodeText(raw))
  IN  IF code = JS_NULL \/ code = "" THEN w
      ELSE IF code = w._lastCode /\ t - w._lastAt < DEDUPE_MS THEN w
      ELSE Deliver(w, code, t)

\* this._onDetected(data) at Date.now() = t, raw being data.codeResult.code
\* or "".
onDetected(w, raw, t) ==
  LET code == acceptScannedCode(raw)
  IN  IF code = JS_NULL \/ code = "" THEN w
      ELSE IF code = w._lastCode /\ t - w._lastAt < DEDUPE_MS THEN w
      ELSE Deliver(w, code, t)

quaggaFrame ==
  /\ UNCHANGED <<Logger, els, scanned>>
  /\ UNCHANGED serverVars

\* wrapper.init(deviceId) up to Q.init(config, callback): the timer is set.
WrapperInit ==
  /\ wrapper.loaded
  /\ Len(wrapper.inits) < MaxInits
  /\ wrapper' = [wrapper EXCEPT
                   !.inits = Append(@, [pc |-> "pending", due |-> now + INIT_TIMEOUT_MS]),
                   !.stopped = FALSE]
  /\ UNCHANGED now
  /\ quaggaFrame

\* The attachment of the handlers at the end of the callback, and resolve().
\* An init whose timer has been cleared or has fired has due = 0.
Attached(w, i) ==
  [w EXCEPT !.inits[i] = [pc |-> "resolved", due |-> 0],
            !.eventsAttached = TRUE,
            !.handlers = IF w.eventsAttached THEN @ ELSE @ + 1]

\* Quagga calls the callback of the i-th init before its timer has fired:
\* with an error, or without; Q.start() throws or not; there is an active
\* track, whose constraints are awaited, or none.
InitCallback(i, outcome, track) ==
  /\ wrapper.loaded
  /\ i \in DOMAIN wrapper.inits
  /\ wrapper.inits[i].pc = "pending"
  /\ wrapper' =
       IF outcome \in {"err", "startThrows"}
       THEN [wrapper EXCEPT !.inits[i] = [pc |-> "rejected", due |-> 0]]
       ELSE LET started == [wrapper EXCEPT !.running = TRUE, !.active = TRUE]
            IN  IF track THEN [started EXCEPT !.inits[i] = [pc |-> "awaiting", due |-> 0]]
                ELSE Attached(started, i)
  /\ UNCHANGED now
  /\ quaggaFrame

\* applyTrackConstraints has settled: the callback goes on.
InitResume(i) ==
  /\ wrapper.loaded
  /\ i \in DOMAIN wrapper.inits
  /\ wrapper.inits[i].pc = "awaiting"
  /\ wrapper' = Attached(wrapper, i)
  /\ UNCHANGED now
  /\ quaggaFrame

\* The 12 s timer of the i-th init fires: the callback has not been called.
InitTimeout(i) ==
  /\ wrapper.loaded
  /\ i \in DOMAIN wrapper.inits
  /\ wrapper.inits[i].pc = "pending"
  /\ now >= wrapper.inits[i].due
  /\ wrapper' = [wrapper EXCEPT !.inits[i] = [pc |-> "timedOut", due |-> 0],
                                !.running = FALSE, !.active = FALSE]
  /\ UNCHANGED now
  /\ quaggaFrame

\* Quagga calls the callback after the timer has fired: if (timedOut) return.
LateCallback(i) ==
  /\ wrapper.loaded
  /\ i \in DOMAIN wrapper.inits
  /\ wrapper.inits[i].pc = "timedOut"
  /\ wrapper' = [wrapper EXCEPT !.inits[i].pc = "late"]
  /\ UNCHANGED now
  /\ quaggaFrame

\* wrapper.stop(), as called by the Stop button, by a change of camera and
\* when the page is hidden.  Quagga has offDetected.
WrapperStop ==
  /\ wrapper.loaded
  /\ wrapper' = [wrapper EXCEPT
                   !.running = FALSE,
                   !.handlers = IF wrapper.eventsAttached THEN 0 ELSE @,
                   !.eventsAttached = FALSE,
                   !.active = FALSE,
                   !.stopped = TRUE]
  /\ UNCHANGED now
  /\ quaggaFrame

\* Quagga, started and with a handler registered, reports a detection.
Detect(raw) ==
  /\ wrapper.loaded
  /\ wrapper.running
  /\ wrapper.handlers > 0
  /\ wrapper.seen < MaxDetections
  /\ wrapper' = [onDetected(wrapper, raw, now) EXCEPT !.seen = wrapper.seen + 1]
  /\ UNCHANGED now
  /\ quaggaFrame

\* Time passes: by half the window while detections are being looked at,
\* or up to the time a pending init's timer is due.
QuaggaTick ==
  /\ wrapper.loaded
  /\ \E t \in {now + DetectStep} \cup
              {wrapper.inits[i].due : i \in {j \in DOMAIN wrapper.inits : wrapper.inits[j].pc = "pending"}} :
       /\ t > now
       /\ t = now + DetectStep => t <= MaxScanTicks * DetectStep
       /\ now' = t
  /\ UNCHANGED pageVars
  /\ UNCHANGED serverVars

QuaggaInit ==
  /\ ServerUnused
  /\ wrapper = WrapperLoaded
  /\ Logger = NoLogger /\ els = NoEls /\ scanned = NoScan

QuaggaNext ==
  \/ WrapperInit
  \/ \E i \in 1..MaxInits, outcome \in {"err", "startThrows", "ok"}, track \in BOOLEAN :
       InitCallback(i, outcome, track)
  \/ \E i \in 1..MaxInits : InitResume(i)
  \/ \E i \in 1..MaxInits : InitTimeout(i)
  \/ \E i \in 1..MaxInits : LateCallback(i)
  \/ WrapperStop
  \/ \E raw \in DetectedCodes : Detect(raw)
  \/ QuaggaTick

SpecQuagga == QuaggaInit /\ [][QuaggaNext]_vars

(***************************************************************************)
(* App (src/public/camera.js): onHit, the Lookup button and                *)
(* lookupWithStatus.  els holds the text of the page's elements and, in    *)
(* lookups, one record per call of lookupWithStatus: its query, where it   *)
(* stands, and the response it has unpacked.  The responses are the        *)
(* worker's: items_sold, items_current (their lengths are kept) and        *)
(* stats.combined; prices are whole dollars.                               *)
(***************************************************************************)
MaxLookups == 3
LOCAL_MATCH == "Local UPC match"
\* A figure of the statistics is <<n>>, or <<>> for null.
NoStats == [count |-> 0, median |-> <<>>, p25 |-> <<>>, p75 |-> <<>>]
NoData == [sold |-> 0, current |-> 0, stats |-> NoStats, note |-> ""]

\* text.indexOf(part) !== -1
IncludesText(text, part) ==
  \E k \in 1..(Len(text) - Len(part) + 1) : SubSeq(text, k, k + Len(part) - 1) = part

\* usd(n): the dash for null, else the amount as US dollars.
usd(n) == IF n = <<>> THEN "--" ELSE "$" \o ToString(n[1]) \o ".00"

\* normalizeInputCode(raw)
normalizeInputCode(raw) ==
  LET t == StripNonDigits(CodeText(raw))
  IN  IF Len(t) = 13 /\ SubSeq(t, 1, 1) = "0" THEN SubSeq(t, 2, 13) ELSE t

\* The answers of /api/estimate: nothing found, with a note; sold items
\* found; only current items found.
Responses ==
  {[sold |-> 0, current |-> 0,
    stats |-> NoStats,
    note |-> "eBay sold: rate-limited"],
   [sold |-> 2, current |-> 1,
    stats |-> [count |-> 3, median |-> <<7>>, p25 |-> <<6>>, p75 |-> <<9>>], note |-> ""],
   [sold |-> 0, current |-> 2,
    stats |-> [count |-> 2, median |-> <<12>>, p25 |-> <<11>>, p75 |-> <<13>>],
    note |-> "eBay sold: rate-limited"]}

\* unpackEstimateResponse(data).itemsForTable.length
ApiRows(data) == IF data.sold > 0 THEN data.sold ELSE data.current

\* beanies.json, indexed by UPC: the prices of the rows of each code.
LocalIndex(upc) == IF upc = "036000291452" THEN <<4, 6>> ELSE <<>>

\* qf(p) for p = k / 4 over the sorted prices: the mean of the values at
\* the floor and at the ceiling of (length - 1) * p.
LocalQuantile(vals, k) ==
  LET lo == ((Len(vals) - 1) * k) \div 4
      hi == ((Len(vals) - 1) * k + 3) \div 4
  IN  <<(vals[lo + 1] + vals[hi + 1]) \div 2>>

\* The texts written for a local match.
ShowLocal(e, vals, note) ==
  [e EXCEPT !.count = ToString(Len(vals)),
            !.median = usd(LocalQuantile(vals, 2)),
            !.iqr = usd(LocalQuantile(vals, 1)) \o "-" \o usd(LocalQuantile(vals, 3)),
            !.detected = (IF note # "" THEN note \o " | " ELSE "") \o LOCAL_MATCH]

\* String(stats.count || rows.length || 0)
CountText(data) ==
  ToString(IF data.stats.count # 0 THEN data.stats.count ELSE ApiRows(data))

\* The texts written from the response of the API.
ShowApi(e, data) ==
  [e EXCEPT !.count = CountText(data),
            !.median = usd(data.stats.median),
            !.iqr = usd(data.stats.p25) \o "-" \o usd(data.stats.p75),
            !.detected = IF data.note # "" THEN data.note ELSE "Done"]

\* The end of lookupWithStatus, rows being the number of rows it ended up
\* with: the API's figures are written if there are rows and the detected
\* text does not hold "Local UPC match"; renderRows; done.
Finish(e, i, rows) ==
  LET shown == IF rows > 0 /\ ~IncludesText(e.detected, LOCAL_MATCH)
               THEN ShowApi(e, e.lookups[i].data) ELSE e
  IN  [shown EXCEPT !.lookups[i].pc = "done"]

ElsLoaded ==
  [loaded |-> TRUE, detected |-> "", count |-> "", median |-> "", iqr |-> "",
   error |-> "", lookups |-> <<>>]

appFrame ==
  /\ UNCHANGED <<now, Logger, wrapper, scanned>>
  /\ UNCHANGED serverVars

\* lookupWithStatus(q) up to the fetch of /api/estimate.
StartLookup(e, code) ==
  [e EXCEPT !.error = "",
            !.lookups = Append(@, [q |-> code, pc |-> "fetching", data |-> NoData])]

\* app.onHit(code), called by the wrapper with an accepted code.
AppOnHit(code) ==
  /\ els.loaded
  /\ Len(els.lookups) < MaxLookups
  /\ acceptScannedCode(code) = code
  /\ els' = StartLookup([els EXCEPT !.detected = "Detected: " \o code], code)
  /\ appFrame

\* lookupBtn.onclick with text in the manual field.
LookupClick(text) ==
  /\ els.loaded
  /\ Len(els.lookups) < MaxLookups
  /\ LET v == normalizeInputCode(Trim(text))
     IN  els' = IF v # "" THEN StartLookup(els, v) ELSE els
  /\ appFrame

\* PriceEstimator.estimate of the i-th lookup fails: the catch shows it.
EstimateFails(i) ==
  /\ els.loaded
  /\ i \in DOMAIN els.lookups
  /\ els.lookups[i].pc = "fetching"
  /\ els' = [els EXCEPT !.lookups[i].pc = "done",
                        !.error = "Lookup failed: 502"]
  /\ appFrame

\* PriceEstimator.estimate of the i-th lookup answers with data: with no
\* rows and a valid GTIN the local rows are awaited, else the lookup ends.
EstimateReply(i, data) ==
  /\ els.loaded
  /\ i \in DOMAIN els.lookups
  /\ els.lookups[i].pc = "fetching"
  /\ LET e == [els EXCEPT !.lookups[i].data = data]
     IN  els' = IF ApiRows(data) = 0 /\ isValidGTIN(e.lookups[i].q)
                THEN [e EXCEPT !.lookups[i].pc = "local"]
                ELSE Finish(e, i, ApiRows(data))
  /\ appFrame

\* localLookupByUPC of the i-th lookup settles: with the rows of the
\* index, or by an exception when beanies.json cannot be loaded.
LocalReply(i, loaded) ==
  /\ els.loaded
  /\ i \in DOMAIN els.lookups
  /\ els.lookups[i].pc = "local"
  /\ LET vals == IF loaded THEN LocalIndex(StripNonDigits(els.lookups[i].q)) ELSE <<>>
         note == els.lookups[i].data.note
     IN  els' = IF Len(vals) > 0
                THEN Finish(ShowLocal(els, vals, note), i, Len(vals))
                ELSE Finish(els, i, 0)
  /\ appFrame

ScannedCodes == {"036000291452", "4006381333931"}
ManualTexts == {" 036000291452 ", "0036000291452", "4006381333931", "abc"}

AppInit ==
  /\ ServerUnused
  /\ els = ElsLoaded
  /\ Logger = NoLogger /\ wrapper = NoWrapper /\ scanned = NoScan

AppNext ==
  \/ \E code \in ScannedCodes : AppOnHit(code)
  \/ \E text \in ManualTexts : LookupClick(text)
  \/ \E i \in 1..MaxLookups : EstimateFails(i)
  \/ \E i \in 1..MaxLookups, data \in Responses : EstimateReply(i, data)
  \/ \E i \in 1..MaxLookups, loaded \in BOOLEAN : LocalReply(i, loaded)

SpecApp == AppInit /\ [][AppNext]_vars

(***************************************************************************)
(* Properties of the handler.                                              *)
(***************************************************************************)
StartsWith(text, prefix) ==
  Len(text) >= Len(prefix) /\ SubSeq(text, 1, Len(prefix)) = prefix

\* The number of places of text at which sub occurs.
Occurrences(text, sub) ==
  Cardinality({i \in 1..(Len(text) - Len(sub) + 1) :
                 SubSeq(text, i, i + Len(sub) - 1) = sub})

Answered == pc = "done" /\ response.status = 200
RaisedAt(steps) == \E e \in raised : e.step \in steps
Tok(step) == IF step = "browse" THEN browseToken ELSE insightsToken
IssuedFor(scope) == {TokenValue(scope, k) : k \in 1..issued[scope]}

\* C2: whatever fails (a token acquisition, a primary adapter, the secondary
\* adapter), a request with a non-empty query is not aborted: the handler is
\* never left by an exception and ends with a status-200
\* response carrying items_current, items_sold, stats.current/sold/combined
\* and note, in which a failed call has contributed no item.
C2_NeverAborted ==
  /\ pc # "aborted"
  /\ (pc = "done" /\ Truthy(q)) =>
       /\ response.status = 200
       /\ DOMAIN response.body = {"items_current", "items_sold", "stats", "note"}
       /\ DOMAIN response.body.stats = {"current", "sold", "combined"}
       /\ RaisedAt({"token:browse", "current"}) =>
            \A i \in 1..Len(response.body.items_current) :
              response.body.items_current[i].source # "ebay_current"
       /\ RaisedAt({"token:insights", "sold"}) => response.body.items_sold = <<>>
       /\ RaisedAt({"etsy"}) => response.body.items_current = <<>>

C2_Witness ==
  /\ Answered
  /\ RaisedAt({"current"}) /\ RaisedAt({"sold"}) /\ RaisedAt({"etsy"})

\* C7: the secondary adapter runs, and the response is assembled, only once
\* both primary calls have resolved: no state has Etsy started or the
\* response assembled while a primary call of the request is in flight.
C7_CascadeAfterBothPrimaries ==
  (et.st # "none" \/ pc \in {"etsy", "done"}) =>
    (cur.st # "inflight" /\ sold.st # "inflight")

C7_Witness ==
  pc = "etsy" /\ calls["current"] = 1 /\ calls["sold"] = 1 /\ sold.hasItems

\* C8 as stated: once the primary current-listing call has resolved with zero
\* items, the secondary adapter can be invoked while the sold call is still
\* in flight.
C8_CascadeNeedNotWaitForSold ==
  (/\ pc = "join"
   /\ cur.st = "done"
   /\ Len(ItemsOf(cur)) = 0
   /\ env.ETSY_API_KEY
   /\ sold.st = "inflight") => ENABLED Join

\* C8 as amended: the cascade decision waits on the sold branch.  While the
\* sold call is in flight the handler stays suspended on Promise.all, and the
\* secondary adapter is invoked only by a step taken with both primary calls
\* resolved.
C8_CascadeWaitsForSold ==
  /\ []((pc = "join" /\ sold.st = "inflight") => ~ENABLED Join)
  /\ [][(et.st = "none" /\ et'.st = "inflight") =>
          (pc = "join" /\ cur.st = "done" /\ sold.st = "done")]_vars

C8_Witness ==
  /\ pc = "join"
  /\ cur.st = "done"
  /\ Len(ItemsOf(cur)) = 0
  /\ env.ETSY_API_KEY
  /\ sold.st = "inflight"

ConfigError == "Missing EBAY_CLIENT_ID or EBAY_CLIENT_SECRET"
IsProviderError(msg) ==
  StartsWith(msg, "eBay token error ") \/ msg = "OAuth response missing access_token"

\* C6: getEbayToken fails with the configuration error whenever the client id
\* or the client secret is absent from the configuration,
\* and with a provider error whenever the credential endpoint answers with a
\* non-success status or without a token; in neither case does the caller
\* receive a token, and nothing is stored.
C6_TokenFailures ==
  [][\A step \in {"browse", "insights"} :
       /\ (/\ pc = "token:" \o step
           /\ (~env.EBAY_CLIENT_ID \/ ~env.EBAY_CLIENT_SECRET)) =>
            /\ Tok(step)' = JS_NULL
            /\ [step |-> "token:" \o step, msg |-> ConfigError] \in raised'
            /\ calls' = calls
            /\ TOKEN_CACHE' = TOKEN_CACHE
       /\ (/\ pc = "exchange:" \o step
           /\ pc' # pc
           /\ (~res'.ok \/ res'.access_token = "")) =>
            /\ Tok(step)' = JS_NULL
            /\ \E e \in raised' : e.step = "token:" \o step /\ IsProviderError(e.msg)
            /\ TOKEN_CACHE' = TOKEN_CACHE]_vars

C6_Witness ==
  /\ pc = "dispatch"
  /\ [step |-> "token:browse", msg |-> "eBay token error 401 invalid_client"] \in raised
  /\ [step |-> "token:insights", msg |-> "OAuth response missing access_token"] \in raised
  /\ browseToken = JS_NULL /\ insightsToken = JS_NULL

\* C4 as stated: getEbayToken returns the cached token without contacting the
\* credential endpoint exactly when the scope has an entry and
\* now < exp - 60 s; in every other case it performs a fresh exchange, and
\* the exchange replaces the cache entry by the new token.
C4_EveryMissExchangesAndReplaces ==
  [][\A step \in {"browse", "insights"} :
       LET c == TOKEN_CACHE[StepScope(step)]
           fresh == c.present /\ now < c.exp - 60000
       IN  /\ (pc = "token:" \o step /\ fresh) =>
                (Tok(step)' = c.value /\ calls' = calls /\ pc' = StepNext(step))
           /\ (pc = "token:" \o step /\ ~fresh) =>
                (pc' = "exchange:" \o step
                 /\ calls'["exchange:" \o step] = calls["exchange:" \o step] + 1)
           /\ (pc = "exchange:" \o step /\ pc' # pc) =>
                (/\ TOKEN_CACHE'[StepScope(step)].present
                 /\ TOKEN_CACHE'[StepScope(step)].value = res'.access_token
                 /\ res'.access_token # ""
                 /\ Tok(step)' = res'.access_token)]_vars

\* C4 as amended: getEbayToken returns the cached token without contacting
\* the credential endpoint exactly when the scope has an entry and
\* now < exp - 60 s.  In every other case the cached value is not returned:
\* with both credentials configured a fresh exchange is started, otherwise
\* the call fails with no exchange; an exchange answered with a token
\* replaces the cache entry by that token, and one that fails leaves the
\* entry as it was.
C4_CachedExactlyWhenFresh ==
  [][\A step \in {"browse", "insights"} :
       LET c == TOKEN_CACHE[StepScope(step)]
           fresh == c.present /\ now < c.exp - 60000
       IN  /\ (pc = "token:" \o step /\ fresh) =>
                (/\ Tok(step)' = c.value
                 /\ calls' = calls
                 /\ pc' = StepNext(step)
                 /\ TOKEN_CACHE' = TOKEN_CACHE)
           /\ (pc = "token:" \o step /\ ~fresh) =>
                /\ Tok(step)' = JS_NULL
                /\ TOKEN_CACHE' = TOKEN_CACHE
                /\ IF env.EBAY_CLIENT_ID /\ env.EBAY_CLIENT_SECRET
                   THEN /\ pc' = "exchange:" \o step
                        /\ calls'["exchange:" \o step] = calls["exchange:" \o step] + 1
                   ELSE /\ pc' = StepNext(step)
                        /\ calls' = calls
           /\ (pc = "exchange:" \o step /\ pc' # pc) =>
                IF res'.ok /\ res'.access_token # ""
                THEN /\ TOKEN_CACHE'[StepScope(step)].present
                     /\ TOKEN_CACHE'[StepScope(step)].value = res'.access_token
                     /\ res'.access_token \notin IssuedFor(StepScope(step))
                     /\ Tok(step)' = res'.access_token
                ELSE TOKEN_CACHE' = TOKEN_CACHE /\ Tok(step)' = JS_NULL]_vars

\* An entry 5 s from its expiry is bypassed and a fresh exchange is under way.
C4_Witness ==
  /\ pc = "exchange:browse"
  /\ TOKEN_CACHE[BROWSE_SCOPE].present
  /\ TOKEN_CACHE[BROWSE_SCOPE].exp = tnow + 5000

\* C10 as stated: a primary adapter is invoked only with a token acquired for
\* its own scope; a branch whose token acquisition failed is never
\* dispatched, is recorded in note, and ends the request with an empty item
\* array.
C10_FailedTokenBranchEmpty ==
  /\ calls["current"] > 0 => browseToken \in IssuedFor(BROWSE_SCOPE)
  /\ calls["sold"] > 0 => insightsToken \in IssuedFor(INSIGHTS_SCOPE)
  /\ Answered =>
       /\ RaisedAt({"token:browse"}) =>
            /\ calls["current"] = 0
            /\ Occurrences(response.body.note, "Browse token error: ") = 1
            /\ response.body.items_current = <<>>
       /\ RaisedAt({"token:insights"}) =>
            /\ calls["sold"] = 0
            /\ Occurrences(response.body.note, "Insights token error: ") = 1
            /\ response.body.items_sold = <<>>

\* C10 as amended: a primary adapter is invoked only with a token acquired for
\* its own scope; a branch whose token acquisition failed is never
\* dispatched, is recorded in note, and contributes no item: items_sold is
\* empty, and items_current holds nothing but what the secondary adapter
\* returned.
C10_FailedTokenBranchNotDispatched ==
  /\ calls["current"] > 0 => browseToken \in IssuedFor(BROWSE_SCOPE)
  /\ calls["sold"] > 0 => insightsToken \in IssuedFor(INSIGHTS_SCOPE)
  /\ RaisedAt({"token:browse"}) => (calls["current"] = 0 /\ cur.st # "inflight")
  /\ RaisedAt({"token:insights"}) => (calls["sold"] = 0 /\ sold.st # "inflight")
  /\ Answered =>
       /\ RaisedAt({"token:browse"}) =>
            /\ Occurrences(response.body.note, "Browse token error: ") = 1
            /\ response.body.items_current = ItemsOf(et)
       /\ RaisedAt({"token:insights"}) =>
            /\ Occurrences(response.body.note, "Insights token error: ") = 1
            /\ response.body.items_sold = <<>>

C10_Witness ==
  /\ Answered
  /\ RaisedAt({"token:browse"})
  /\ RaisedAt({"token:insights"})
  /\ response.body.items_current # <<>>

\* What the primary current-listing branch ended with: the items of the eBay
\* current search, or of its Finding fallback where that one answered.
PrimaryCurrentItems == IF fcur.hasItems THEN fcur.items ELSE ItemsOf(cur)

\* C1: in an answered request, the secondary adapter (Etsy) has been invoked
\* if and only if the primary current-listing branch ended with zero items
\* (failed, unavailable or empty) and ETSY_API_KEY is set; items_current is
\* Etsy's items when Etsy was invoked and returned at least one, and the
\* primary branch's result otherwise.
C1_EtsyIffPrimaryEmpty ==
  Answered =>
    /\ (calls["etsy"] > 0) <=> (Len(PrimaryCurrentItems) = 0 /\ env.ETSY_API_KEY)
    /\ response.body.items_current =
         IF calls["etsy"] > 0 /\ Len(ItemsOf(et)) > 0
         THEN ItemsOf(et) ELSE PrimaryCurrentItems

\* C9: both primary calls are started before either result is awaited: while
\* one primary call is in flight the other has been started (or resolved
\* without a call), so neither start depends on the other's completion.
C9_BothStartedBeforeAwait ==
  /\ cur.st = "inflight" => sold.st # "none"
  /\ sold.st = "inflight" => cur.st # "none"

\* C3: every error raised by a token acquisition or by an adapter call during
\* an answered request appears in note: each raised message occurs in note at
\* least as many times as there were errors raised with it.
C3_EveryErrorInNote ==
  Answered =>
    \A e \in raised :
      Occurrences(response.body.note, e.msg)
        >= Cardinality({f \in raised : f.msg = e.msg})

\* C5: under any interleaving of concurrent callers sharing the token cache,
\* every value getToken(scope) has returned was issued by the credential
\* endpoint for that scope, and a value served from the cache was more than
\* 60 s from its recorded expiry when it was read.
C5_RacesNeverYieldWrongToken ==
  \A c \in DOMAIN callers :
    callers[c].pc = "returned" =>
      /\ callers[c].value \in IssuedFor(callers[c].scope)
      /\ callers[c].fromCache => callers[c].expLeft > 60000


\* The note entry the handler of src/src/worker.js writes for an error.
EntryOf(e) ==
  CASE e.step = "token:browse" -> "Browse token error: " \o e.msg
    [] e.step = "token:insights" -> "Insights token error: " \o e.msg
    [] e.step = "current" -> "eBay current error: " \o e.msg
    [] e.step = "sold" -> "eBay sold error: " \o e.msg
    [] e.step = "etsy" -> "Etsy current error: " \o e.msg

\* The items of a response that carry one of the given source tags.
FromSources(items, tags) == SelectSeq(items, LAMBDA i : i.source \in tags)

TokenEntries ==
  LET of(step) == {EntryOf(e) : e \in {f \in raised : f.step = step}}
      seq(step) == IF of(step) = {} THEN <<>> ELSE <<CHOOSE x \in of(step) : TRUE>>
  IN  seq("token:browse") \o seq("token:insights")
CurrentEntries == PushIf(PushIf(<<>>, cur.note), cur.error)
SoldEntries == PushIf(PushIf(<<>>, sold.note), sold.error)
EtsyEntries ==
  IF et.st = "none" THEN <<>>
  ELSE IF et.st = "rejected" THEN <<"Etsy current error: " \o et.error>>
  ELSE <<et.note>>

C13_SoldNeverCascades ==
  /\ calls["finding:sold"] = 0
  /\ fsold.st = "none"
  /\ Answered =>
       FromSources(response.body.items_sold, {"ebay_sold"}) = response.body.items_sold

\* C14: when both primary adapters end with no item (empty or failed) and no
\* secondary adapter is configured, the response has empty items_current and
\* items_sold, count 0 in the three summaries, and a note entry for each of
\* the two branches.
C14_BothEmpty ==
  (/\ Answered
   /\ ItemsOf(cur) = <<>>
   /\ ItemsOf(sold) = <<>>
   /\ ~env.ETSY_API_KEY) =>
    /\ response.body.items_current = <<>>
    /\ response.body.items_sold = <<>>
    /\ \A k \in {"current", "sold", "combined"} : response.body.stats[k].count = 0
    /\ CurrentEntries # <<>>
    /\ SoldEntries # <<>>
    /\ \A x \in {CurrentEntries[1], SoldEntries[1]} :
         Cardinality({i \in 1..Len(notes) : notes[i] = x}) = 1
    /\ response.body.note = JoinNotes(notes)

C14_Witness ==
  /\ Answered
  /\ ~env.ETSY_API_KEY
  /\ cur.hasItems /\ cur.items = <<>>
  /\ sold.hasItems /\ sold.items = <<>>
  /\ response.body.note =
       "eBay Browse (keywords, current) | eBay Insights (keywords, sold) - no parsable prices"

\* C25: a request whose query parameter is missing, empty or only whitespace
\* is answered with status 400 and an error body; no token exchange and no
\* adapter call is made for it, and the token cache and the response cache
\* are what they were.
C25_MissingQueryRejected ==
  [][(nreq' = nreq + 1 /\ ~Truthy(q')) =>
       /\ response' = json([error |-> "Missing query"], 400)
       /\ pc' = "done"
       /\ calls' = NoCalls
       /\ \A p \in {cur', sold', et', fcur', fsold'} : p.st # "inflight"
       /\ issued' = issued
       /\ TOKEN_CACHE' = TOKEN_CACHE
       /\ TOKEN_MEMO' = TOKEN_MEMO
       /\ CACHE' = CACHE]_vars

C25_Witness ==
  /\ nreq = 2
  /\ pc = "done"
  /\ ~Truthy(q)
  /\ response = json([error |-> "Missing query"], 400)
  /\ calls = NoCalls
  /\ TOKEN_CACHE[BROWSE_SCOPE].present

\* The current items after the cascade: the primary adapter's when it
\* returned any, else the secondary adapter's.
FinalCurrent == IF ItemsOf(cur) # <<>> THEN ItemsOf(cur) ELSE ItemsOf(et)

\* C24: stats.current, stats.sold and stats.combined are summarize() of the
\* prices of the final (post-cascade) items_current, of items_sold and of
\* their concatenation; so the counts are the lengths of the arrays and
\* combined.count is their sum; a failed primary with a secondary returning
\* items priced 10 and 20 gives items_current equal to those two items and
\* stats.current.median = 15.
C24_ThreeSummaries ==
  Answered =>
    LET b == response.body
    IN  /\ b.items_current = FinalCurrent
        /\ b.items_sold = ItemsOf(sold)
        /\ b.stats.current = summarize(Prices(FinalCurrent))
        /\ b.stats.sold = summarize(Prices(ItemsOf(sold)))
        /\ b.stats.combined = summarize(Prices(FinalCurrent \o ItemsOf(sold)))
        /\ b.stats.current.count = Len(b.items_current)
        /\ b.stats.sold.count = Len(b.items_sold)
        /\ b.stats.combined.count = Len(b.items_current) + Len(b.items_sold)
        /\ (/\ RaisedAt({"current"})
            /\ et.hasItems
            /\ Prices(et.items) = <<Int2Num(10), Int2Num(20)>>) =>
             /\ b.items_current = et.items
             /\ b.stats.current.median = Int2Num(15)

C24_Witness ==
  /\ Answered
  /\ RaisedAt({"current"})
  /\ et.hasItems
  /\ Prices(et.items) = <<Int2Num(10), Int2Num(20)>>
  /\ Len(response.body.items_sold) = 2
  /\ response.body.stats.current.median = Int2Num(15)
  /\ response.body.stats.combined.count = 4

(***************************************************************************)
(* Properties of the Finding-only handler.                                 *)
(***************************************************************************)
\* The request was answered from the Finding calls made for it.
Computed == pc = "done" /\ response.status = 200 /\ fcur.st = "done"

\* C16: a Finding payload whose embedded error carries the id 10001 makes the
\* adapter call fail with an error flagged rateLimited, which no other
\* failure is; the handler then records "Finding <branch>: rate-limited" for
\* that branch and no generic error note, and for any other embedded error
\* or failure it records the generic "Finding <branch> error: ..." note.
C16_RateLimitDistinct ==
  /\ \A reply \in P003_FindingReplies :
       /\ ebayFinding(reply).threw = (~reply.json \/ reply.hasError)
       /\ ebayFinding(reply).rateLimited =
            (reply.json /\ reply.hasError /\ reply.errorId = Str("10001"))
  /\ Computed =>
       \A branch \in {"current", "sold"} :
         LET limited == "Finding " \o branch \o ": rate-limited"
             generic == "Finding " \o branch \o " error: "
             errors == {e \in raised : e.step = "finding:" \o branch}
         IN  /\ Occurrences(response.body.note, limited)
                  = Cardinality({e \in errors : e.rateLimited})
             /\ Occurrences(response.body.note, generic)
                  = Cardinality({e \in errors : ~e.rateLimited})
             /\ \A e \in errors :
                  ~e.rateLimited => Occurrences(response.body.note, generic \o e.msg) = 1

C16_Witness ==
  /\ Computed
  /\ \E e \in raised : e.step = "finding:current" /\ e.rateLimited
  /\ \E e \in raised :
       e.step = "finding:sold" /\ ~e.rateLimited /\ e.msg = "Finding error 11002: bad app id"
  /\ response.body.note \in
       {"Finding current: rate-limited | Finding sold error: Finding error 11002: bad app id",
        "Finding sold error: Finding error 11002: bad app id | Finding current: rate-limited"}

StatFields == {"count", "min", "max", "avg", "median", "p25", "p75", "avg_trimmed"}

\* No credential of an eBay source is configured.
NoEbayCredentials ==
  ~(env.EBAY_CLIENT_ID /\ env.EBAY_CLIENT_SECRET) /\ ~env.EBAY_APP_ID /\ ~env.EBAY_OAUTH_TOKEN

\* C18: every response to a non-empty query has the same shape whatever is
\* configured: items_current and items_sold are arrays and each of
\* stats.current, stats.sold and stats.combined has count, min, max, avg,
\* median, p25, p75 and avg_trimmed; a branch without credentials yields an
\* empty array and the count-0 summary whose other fields are NaN.
C18_SameShape ==
  (pc \in {"done", "aborted"} /\ Truthy(q)) =>
    /\ {"items_current", "items_sold", "stats", "note"} \subseteq DOMAIN response.body
    /\ \A k \in {"items_current", "items_sold"} :
         DOMAIN response.body[k] = 1..Len(response.body[k])
    /\ \A k \in {"current", "sold", "combined"} :
         StatFields \subseteq DOMAIN response.body.stats[k]
    /\ NoEbayCredentials =>
         /\ response.body.items_sold = <<>>
         /\ response.body.stats.sold = summarize(<<>>)
         /\ ~env.ETSY_API_KEY =>
              /\ response.body.items_current = <<>>
              /\ response.body.stats.current = summarize(<<>>)

\* C17: a request with a non-empty search term gets a non-success response
\* when, and only when, no usable source is configured at all; it is then an
\* error status and not an empty status-200 payload.
C17_ErrorIffMisconfigured ==
  (pc \in {"done", "aborted"} /\ Truthy(q)) =>
    (response.status # 200 <=> (NoEbayCredentials /\ ~env.ETSY_API_KEY))

(***************************************************************************)
(* Properties of the adapters.                                             *)
(***************************************************************************)
\* A price field that parses to a finite number.
ParsesFinite(v) == IsFinite(ToNumber(v))
MoneyParsesFinite(m) ==
  \/ m.t = "string" /\ IsFinite(StringToNumber(m.s))
  \/ /\ m.t = "object"
     /\ ParsesFinite(m.amount) /\ ParsesFinite(m.divisor)
     /\ ToNumber(m.divisor) # Int2Num(0)

\* A raw record with at least one price field that parses to a finite number.
Priced(kind, it) ==
  CASE kind = "browse" -> ParsesFinite(it.price) \/ ParsesFinite(it.currentBidPrice)
    [] kind = "insights" ->
         \E f \in {"price", "soldPrice", "lastSoldPrice", "transactionPrice",
                   "item_price"} : ParsesFinite(it[f])
    [] kind = "etsy" -> MoneyParsesFinite(it.price) \/ MoneyParsesFinite(it.original_price)

\* The promise of the adapter the payload is for.
Adapted ==
  CASE payload.kind = "browse" -> cur
    [] payload.kind = "insights" -> sold
    [] payload.kind = "etsy" -> et
    [] OTHER -> NoPromise

\* C15: every record an adapter returns has a finite price; a raw record none
\* of whose price fields parses to a finite number is dropped, for every
\* adapter.
C15_PricesFinite ==
  /\ \A p \in {cur, sold, et} : \A i \in 1..Len(p.items) : IsFinite(p.items[i].price)
  /\ Adapted.st = "done" =>
       Len(Adapted.items) <=
         Cardinality({i \in 1..Len(payload.records) :
                        Priced(payload.kind, payload.records[i])})

C15_Witness ==
  /\ payload.kind = "insights"
  /\ Len(payload.records) = 2
  /\ ~Priced("insights", payload.records[1])
  /\ payload.records[1].price = Str("free")
  /\ Priced("insights", payload.records[2])
  /\ sold.st = "done"
  /\ Len(sold.items) = 1

\* What a money field parses to: Number(string), amount / divisor, or NaN.
MoneyValue(m) ==
  IF m.t = "string" THEN StringToNumber(m.s)
  ELSE IF MoneyParsesFinite(m)
  THEN Rat(ToNumber(m.amount)[1] * ToNumber(m.divisor)[2],
           ToNumber(m.amount)[2] * ToNumber(m.divisor)[1])
  ELSE NaN

\* What the candidate price fields of a raw record parse to, in the
\* adapter's order.
CandidateValues(kind, it) ==
  CASE kind = "browse" -> <<ToNumber(it.price), ToNumber(it.currentBidPrice)>>
    [] kind = "insights" ->
         <<ToNumber(it.price), ToNumber(it.soldPrice), ToNumber(it.lastSoldPrice),
           ToNumber(it.transactionPrice), ToNumber(it.item_price)>>
    [] kind = "etsy" -> <<MoneyValue(it.price), MoneyValue(it.original_price)>>

\* The first finite number of a sequence, NaN if it has none.
FirstFinite(seq) ==
  LET at == {i \in 1..Len(seq) : IsFinite(seq[i])}
  IN  IF at = {} THEN NaN ELSE seq[CHOOSE i \in at : \A j \in at : i <= j]

\* C29: an adapter takes as price of a raw record the first candidate price
\* field, in its fixed order, that parses to a finite number, and drops a
\* record only when none of its candidate fields does.
C29_FirstParsableTaken ==
  Adapted.st = "done" =>
    Prices(Adapted.items) =
      SelectSeq([i \in 1..Len(payload.records) |->
                   FirstFinite(CandidateValues(payload.kind, payload.records[i]))],
                IsFinite)

\* C26: apart from the token manager's cache, handling a request leaves no
\* state behind that can affect a later request: the module keeps no
\* response cache, and no request is answered 200 from what an earlier
\* request left, before any step of its own has run.
C26_Stateless ==
  [][/\ CACHE' = CACHE
     /\ nreq' = nreq + 1 => response'.status # 200]_vars

\* A request for a stored term arrives: it is answered from the cache when
\* less than TTL_MS have passed since the time since, and goes to the
\* Finding service otherwise.
ServedWithin(since(_)) ==
  (/\ nreq' = nreq + 1
   /\ q' # ""
   /\ env.EBAY_APP_ID
   /\ q' \in DOMAIN CACHE) =>
     IF now - since(CACHE[q']) < TTL_MS
     THEN /\ response' = json(CACHE[q'].payload, 0)
          /\ pc' = "done"
          /\ calls' = NoCalls
          /\ fcur'.st # "inflight" /\ fsold'.st # "inflight"
          /\ CACHE' = CACHE
     ELSE /\ response' = NoResponse
          /\ pc' = "join"
          /\ fcur' = InFlight /\ fsold' = InFlight
          /\ calls'["finding:current"] = 1 /\ calls'["finding:sold"] = 1

\* The request that went to the Finding service stores its payload in place
\* of the entry of its term.
Replaced ==
  (pc = "join" /\ pc' = "done") =>
    /\ CACHE'[q].payload = response'.body
    /\ CACHE'[q].exp = tnow + TTL_MS
    /\ CACHE'[q].at = now
    /\ \A k \in DOMAIN CACHE \ {q} : CACHE'[k] = CACHE[k]

\* C27 as stated: a request for term q that arrives less than 15 minutes
\* after a payload for q was computed returns that stored payload without
\* any call; a request arriving 15 minutes or more after it queries the
\* adapters again and replaces the stored entry.
C27_FreshSinceComputed ==
  [][ServedWithin(LAMBDA e : e.at) /\ Replaced]_vars

\* C27 as amended: the 15 minutes run from the arrival of the request that
\* computed the payload (the Date.now() it read before its calls), not from
\* the time the payload was computed.
C27_FreshSinceArrival ==
  [][ServedWithin(LAMBDA e : e.exp - TTL_MS) /\ Replaced]_vars

C27_Witness ==
  /\ nreq = 2
  /\ pc = "done"
  /\ fcur.st = "done" /\ fsold.st = "done"
  /\ tnow = TTL_MS
  /\ q \in DOMAIN CACHE
  /\ CACHE[q].exp = 2 * TTL_MS
  /\ CACHE[q].payload = response.body

\* C34: in the caching variants every computed payload is stored under its
\* query, payloads computed while a branch failed or was rate-limited
\* included (the failed branch's array empty, its note in the payload); a
\* later request for the same term within 15 minutes of the request that
\* computed it receives that payload, same arrays and same note, without
\* the providers being queried again.
C34_DegradedPayloadCached ==
  [][/\ (pc = "join" /\ pc' = "done") =>
          /\ q \in DOMAIN CACHE'
          /\ CACHE'[q].payload = response'.body
          /\ \A e \in raised :
               /\ e.step = "finding:current" => CACHE'[q].payload.items_current = <<>>
               /\ e.step = "finding:sold" => CACHE'[q].payload.items_sold = <<>>
               /\ Occurrences(CACHE'[q].payload.note,
                              IF e.rateLimited THEN ": rate-limited" ELSE e.msg) >= 1
     /\ (/\ nreq' = nreq + 1
         /\ q' \in DOMAIN CACHE
         /\ env.EBAY_APP_ID
         /\ now - (CACHE[q'].exp - TTL_MS) < TTL_MS) =>
          /\ response' = json(CACHE[q'].payload, 0)
          /\ pc' = "done"
          /\ calls' = NoCalls
          /\ fcur'.st = "none" /\ fsold'.st = "none"]_vars

\* The second request, half a lifetime after the first, is answered with the
\* payload the first one computed while the Finding service was rate-limited.
C34_Witness ==
  /\ nreq = 2 /\ pc = "done"
  /\ now = TTL_MS \div 2 /\ tnow = now
  /\ calls = NoCalls /\ fcur.st = "none" /\ fsold.st = "none"
  /\ response.status = 200
  /\ response.body = CACHE[q].payload
  /\ CACHE[q].exp = TTL_MS
  /\ response.body.items_current = <<>> /\ response.body.items_sold = <<>>
  /\ response.body.note = "Finding current: rate-limited | Finding sold: rate-limited"

(***************************************************************************)
(* Properties of the Etsy-first handler.                                   *)
(***************************************************************************)
\* C28: in the Etsy-first endpoint Etsy is queried first when ETSY_API_KEY
\* is set; eBay Browse is queried exactly when no items were obtained from
\* Etsy (not configured, failed, or empty) and EBAY_OAUTH_TOKEN is set, and
\* never once Etsy returned an item; the returned items all come from a
\* single source.
C28_EtsyFirst ==
  /\ (pc # "idle" /\ Truthy(q)) =>
       calls["etsy"] = (IF env.ETSY_API_KEY THEN 1 ELSE 0)
  /\ calls["current"] <= 1
  /\ calls["current"] = 1 =>
       /\ et.st # "inflight"
       /\ ItemsOf(et) = <<>>
       /\ env.EBAY_OAUTH_TOKEN
  /\ (pc = "done" /\ response.status = 200) =>
       /\ calls["current"] = 1 <=> (ItemsOf(et) = <<>> /\ env.EBAY_OAUTH_TOKEN)
       /\ response.body.items =
            (IF ItemsOf(et) # <<>> THEN ItemsOf(et) ELSE ItemsOf(cur))
       /\ \A i, j \in 1..Len(response.body.items) :
            response.body.items[i].source = response.body.items[j].source

C28_Witness ==
  /\ pc = "done"
  /\ env.ETSY_API_KEY /\ env.EBAY_OAUTH_TOKEN
  /\ et.hasItems /\ et.items = <<>>
  /\ calls["etsy"] = 1 /\ calls["current"] = 1
  /\ Len(response.body.items) = 2
  /\ response.body.items[1].source = "ebay"
  /\ response.body.note = "Etsy active listings (keywords) | eBay keywords"

(***************************************************************************)
(* Properties of the statistics engine.                                    *)
(***************************************************************************)
FiniteCount(series) == Cardinality({i \in 1..Len(series) : IsFinite(series[i])})

\* C19: summarize(S).count is the number of finite elements of S, and when
\* that number is 0 (S = [] included) count is 0 and min, max, avg, median,
\* p25, p75 and avg_trimmed are all NaN.
C19_CountOfFinite ==
  summary # NoSummary =>
    /\ summary.count = FiniteCount(values)
    /\ FiniteCount(values) = 0 =>
         /\ summary.count = 0
         /\ \A f \in {"min", "max", "avg", "median", "p25", "p75", "avg_trimmed"} :
              summary[f] = NaN

C19_Witness ==
  /\ values = <<NaN, Int2Num(2), PosInf, Int2Num(1)>>
  /\ summary # NoSummary
  /\ summary.count = 2
  /\ summary.min = Int2Num(1)

\* C20: for every non-empty series S of finite numbers, summarize(S) has
\* min <= p25 <= median <= p75 <= max.
C20_QuartilesOrdered ==
  (/\ summary # NoSummary
   /\ Len(values) > 0
   /\ FiniteCount(values) = Len(values)) =>
    /\ NumLeq(summary.min, summary.p25)
    /\ NumLeq(summary.p25, summary.median)
    /\ NumLeq(summary.median, summary.p75)
    /\ NumLeq(summary.p75, summary.max)

\* The elements of a series that lie outside the Tukey fences
\* [p25 - 1.5 * iqr, p75 + 1.5 * iqr] of its summary.
OutsideFences(series, st) ==
  LET iqr == NumSub(st.p75, st.p25)
      loFence == NumSub(st.p25, NumScale(iqr, 3, 2))
      hiFence == NumAdd(st.p75, NumScale(iqr, 3, 2))
  IN  {i \in 1..Len(series) :
         ~(NumLeq(loFence, series[i]) /\ NumLeq(series[i], hiFence))}

\* C21: for every non-empty series of finite numbers, avg_trimmed lies
\* within [min, max], and avg_trimmed equals avg whenever no element of the
\* series lies outside the Tukey fences.
C21_TrimmedWithinRange ==
  (/\ summary # NoSummary
   /\ Len(values) > 0
   /\ FiniteCount(values) = Len(values)) =>
    /\ NumLeq(summary.min, summary.avg_trimmed)
    /\ NumLeq(summary.avg_trimmed, summary.max)
    /\ OutsideFences(values, summary) = {} => summary.avg_trimmed = summary.avg

\* The midpoint of the order statistics of the sorted series a at
\* floor((n - 1) * p) and ceil((n - 1) * p) for p = pn/4, as a rational
\* number; indices are 0-based in the claim and 1-based here.
Midpoint(a, pn) ==
  LET lo == ((Len(a) - 1) * pn) \div 4
      hi == ((Len(a) - 1) * pn + 3) \div 4
      x == a[lo + 1]
      y == a[hi + 1]
  IN  Rat(x[1] * y[2] + y[1] * x[2], 2 * x[2] * y[2])

\* C30: on the sorted finite series a of length n, p25, median and p75 are
\* the midpoints of the order statistics at floor((n-1)*p) and
\* ceil((n-1)*p) for p = 0.25, 0.5 and 0.75; for n = 1 all three equal the
\* single element.  The page's stats() computes the same three values.
C30_QuantilesAreMidpoints ==
  (summary # NoSummary /\ FiniteCount(values) > 0) =>
    LET a == SortAsc(FilterFinite(values))
        c == stats(FilterFinite(values))
    IN  /\ summary.p25 = Midpoint(a, 1)
        /\ summary.median = Midpoint(a, 2)
        /\ summary.p75 = Midpoint(a, 3)
        /\ c.p25 = Midpoint(a, 1) /\ c.median = Midpoint(a, 2) /\ c.p75 = Midpoint(a, 3)
        /\ Len(a) = 1 =>
             /\ summary.p25 = a[1]
             /\ summary.median = a[1]
             /\ summary.p75 = a[1]

\* values split at k and put together the other way round: B ++ A for
\* values = A ++ B.
Swapped(series, k) == SubSeq(series, k + 1, Len(series)) \o SubSeq(series, 1, k)

\* C23: summarize(A ++ B) equals summarize(B ++ A) field by field, for every
\* way of splitting a series into A and B; the quantiles the page computes
\* from sold ++ current are those of the summary of current ++ sold.
C23_OrderIndependent ==
  summary # NoSummary =>
    \A k \in 0..Len(values) :
      /\ summarize(Swapped(values, k)) = summary
      /\ LET st == stats(FilterFinite(Swapped(values, k)))
         IN  /\ st.median = summary.median
             /\ st.p25 = summary.p25
             /\ st.p75 = summary.p75

C23_Witness ==
  /\ values = <<Int2Num(2), Rat(15, 2), Int2Num(1)>>
  /\ summary # NoSummary
  /\ summary.min = Int2Num(1)
  /\ summary.max = Rat(15, 2)
  /\ summary.median = Int2Num(2)
  /\ Swapped(values, 2) = <<Int2Num(1), Int2Num(2), Rat(15, 2)>>

\* C31: avg_trimmed is the mean of exactly the values v with
\* p25 - 1.5 * iqr <= v <= p75 + 1.5 * iqr (fences inclusive); when no value
\* of a non-empty series lies within the fences it is the untrimmed avg; so
\* it is never NaN for a non-empty finite series.
C31_TrimmedMean ==
  (/\ summary # NoSummary
   /\ Len(values) > 0
   /\ FiniteCount(values) = Len(values)) =>
    LET out == OutsideFences(values, summary)
        inside == SelectSeq(SortAsc(values),
                            LAMBDA v : \A i \in out : values[i] # v)
    IN  /\ Len(inside) = Len(values) - Cardinality(out)
        /\ inside # <<>> =>
             summary.avg_trimmed = NumScale(SumSeq(inside), 1, Len(inside))
        /\ inside = <<>> => summary.avg_trimmed = summary.avg
        /\ summary.avg_trimmed # NaN

C31_Witness ==
  /\ values = <<Int2Num(2), Int2Num(1)>>
  /\ summary # NoSummary
  /\ OutsideFences(values, summary) = {1, 2}
  /\ summary.avg_trimmed = Rat(3, 2)

\* The lifetime in seconds a credential reply announces; 0 when it names none.
ExpiresIn(reply) == ToNumber(OrElse(reply.expires_in, NumV(Int2Num(0))))[1]

\* A step that stores a token under a scope stores it with
\* exp = mint + max(0, expires_in) * 1000; for a zero, negative or missing
\* expires_in that is the mint time itself, never an earlier time, and the
\* entry is not fresh at the time it is stored.
ExpiryFromMint(mint) ==
  \A step \in {"browse", "insights"} :
    LET e == TOKEN_CACHE'[StepScope(step)]
    IN  (pc = "exchange:" \o step /\ e # TOKEN_CACHE[StepScope(step)]) =>
          /\ e.exp = mint + Max(0, ExpiresIn(res')) * 1000
          /\ e.exp >= mint
          /\ ExpiresIn(res') <= 0 => (e.exp = mint /\ ~CacheFresh(e, now'))

\* C32: a freshly minted token is stored under its scope with
\* expiresAt = now + max(0, expiresIn): for a zero, negative or missing
\* expires_in the stored expiry equals the mint time and is never earlier
\* than it, and such a token is never served from the cache.  `now` is the
\* clock reading the token manager adds the lifetime to: Date.now() after
\* the reply in the variant of part_002.
C32_ExpiryNotBeforeMint == [][ExpiryFromMint(now)]_vars

\* The same for src/src/worker.js, whose `now` is read on entry.
C32_WorkerExpiry == [][ExpiryFromMint(tnow)]_vars

\* A step in which caller c's call of getEbayToken ends with a thrown error.
FailsNow(c) == callers'[c] # callers[c] /\ callers'[c].pc = "failed"

\* A step in which caller c, whose last call failed, calls again for the
\* same scope.
CallsAgain(c) ==
  /\ callers[c].pc = "failed"
  /\ callers'[c].n = callers[c].n + 1
  /\ callers'[c].scope = callers[c].scope

\* C33 as stated: when getEbayToken fails (missing credentials, non-success
\* status, empty access_token) the token cache is left exactly as it was: no
\* entry is added, replaced or removed for any scope, and a later call for
\* the same scope starts a new exchange.
C33_FailureThenNewExchange ==
  [][\A c \in TokenCallers :
       /\ FailsNow(c) => TOKEN_CACHE' = TOKEN_CACHE
       /\ CallsAgain(c) =>
            /\ callers'[c].pc = "exchange"
            /\ calls'[ExchangeOf(callers[c].scope)] =
                 calls[ExchangeOf(callers[c].scope)] + 1]_vars

\* C33 as amended: a failing call leaves the token cache as it was, for
\* every scope.  A later call for the same scope is handled like a first
\* call: it returns the token another call has stored meanwhile when that
\* entry is fresh; otherwise, with a credential missing, it fails again
\* without an exchange, and with both configured it starts a new exchange.
C33_FailureLeavesCache ==
  [][\A c \in TokenCallers :
       /\ FailsNow(c) => TOKEN_CACHE' = TOKEN_CACHE
       /\ CallsAgain(c) =>
            LET sc == callers[c].scope
                e == TOKEN_CACHE[sc]
            IN  /\ TOKEN_CACHE' = TOKEN_CACHE
                /\ IF e.present /\ e.exp > now + 60000
                   THEN /\ callers'[c].pc = "returned"
                        /\ callers'[c].value = e.value
                        /\ calls' = calls
                   ELSE IF ~env.EBAY_CLIENT_ID \/ ~env.EBAY_CLIENT_SECRET
                   THEN /\ callers'[c].pc = "failed"
                        /\ calls' = calls
                   ELSE /\ callers'[c].pc = "exchange"
                        /\ calls'[ExchangeOf(sc)] = calls[ExchangeOf(sc)] + 1]_vars

\* The first caller's exchange for the Browse scope failed, nothing was
\* stored, and its second call has started a second exchange.
C33_Witness ==
  /\ callers[1].pc = "exchange" /\ callers[1].n = 2
  /\ callers[1].scope = BROWSE_SCOPE
  /\ \A c \in TokenCallers \ {1} : callers[c].n = 0
  /\ calls["exchange:browse"] = 2
  /\ \A sc \in Scopes : issued[sc] = 0
  /\ TOKEN_CACHE = EmptyCache

\* C35: provided every external call eventually resolves or rejects, every
\* /api/estimate request eventually returns exactly one response, after at
\* most two token exchanges, two primary adapter calls and one secondary
\* adapter call.
C35_EventuallyOneResponse ==
  /\ (pc \notin {"idle", "done"}) ~> (pc = "done" /\ response # NoResponse)
  /\ [][(nreq' = nreq /\ response' # response) =>
          (response = NoResponse /\ pc # "done" /\ pc' = "done")]_vars
  /\ [](/\ calls["exchange:browse"] + calls["exchange:insights"] <= 2
        /\ calls["current"] + calls["sold"] <= 2
        /\ calls["etsy"] <= 1
        /\ calls["finding:current"] + calls["finding:sold"] = 0)

\* A request answered after the largest number of calls: two exchanges, two
\* primary calls and one secondary call.
C35_Witness ==
  /\ pc = "done" /\ response.status = 200
  /\ calls["exchange:browse"] = 1 /\ calls["exchange:insights"] = 1
  /\ calls["current"] = 1 /\ calls["sold"] = 1
  /\ calls["etsy"] = 1

\* C36: the client Logger enforces its per-minute cap: within the minute
\* that starts at _minuteStart no more than LOG_MAX_PER_MIN entries are
\* accepted into the queue, and no more than that are POSTed to /log,
\* whatever the sequence of write calls and of firings of the flush timer.
C36_CapEnforced ==
  Logger.loaded =>
    /\ Logger.accepted <= LOG_MAX_PER_MIN
    /\ Logger.posted <= LOG_MAX_PER_MIN

\* The standard mod-10 check digit of a digit string: the digits weighted
\* 3, 1, 3, ... from the rightmost one, summed, and the sum's distance to
\* the next multiple of ten.
RECURSIVE WeightedSum(_, _)
WeightedSum(p, k) ==
  IF k > Len(p) THEN 0
  ELSE DigitVal(SubSeq(p, k, k)) * (IF (Len(p) - k) % 2 = 0 THEN 3 ELSE 1)
       + WeightedSum(p, k + 1)
CheckDigit(p) == (10 - (WeightedSum(p, 1) % 10)) % 10

\* C37: isValidGTIN(code) is true exactly when, after removing all
\* non-digit characters, the string has 8, 12, 13 or 14 digits and its last
\* digit equals the standard mod-10 check digit of the preceding digits;
\* acceptScannedCode returns that digit string when isValidGTIN holds and
\* null otherwise.
C37_ValidGTIN ==
  scanned.called =>
    LET d == scanned.digits
        good == /\ Len(d) \in {8, 12, 13, 14}
                /\ DigitVal(SubSeq(d, Len(d), Len(d))) = CheckDigit(SubSeq(d, 1, Len(d) - 1))
    IN  /\ scanned.valid = good
        /\ scanned.accepted = IF scanned.valid THEN d ELSE JS_NULL

\* A UPC-A code written with a separator is accepted as its 12 digits.
C37_Witness ==
  /\ scanned.called
  /\ Len(scanned.digits) = 12
  /\ scanned.raw = SubSeq(scanned.digits, 1, 6) \o "-" \o SubSeq(scanned.digits, 7, 12) \o " "
  /\ scanned.valid
  /\ scanned.accepted = scanned.digits

\* C38: the detection handler calls onHit only with checksum-valid codes,
\* and never calls onHit twice for the same code less than 1200 ms apart
\* when no different code was accepted in between; a detection of a
\* different valid code is delivered immediately.
DeliveryRule ==
  /\ wrapper'.nhits # wrapper.nhits =>
       /\ wrapper'.nhits = wrapper.nhits + 1
       /\ wrapper'.seen = wrapper.seen + 1
       /\ wrapper'.hit.at = now
       /\ isValidGTIN(wrapper'.hit.code)
       /\ AllDigits(wrapper'.hit.code)
       /\ (wrapper.nhits > 0 /\ wrapper'.hit.code = wrapper.hit.code)
            => wrapper'.hit.at - wrapper.hit.at >= DEDUPE_MS
  /\ \A raw \in DetectedCodes :
       (/\ wrapper'.seen = wrapper.seen + 1
        /\ wrapper.running /\ wrapper.handlers > 0
        /\ isValidGTIN(raw)
        /\ StripNonDigits(raw) # wrapper.hit.code
        /\ \E w \in {onDetected(wrapper, raw, now)} :
              wrapper' = [w EXCEPT !.seen = wrapper.seen + 1])
       => (wrapper'.nhits = wrapper.nhits + 1
           /\ wrapper'.hit = [code |-> StripNonDigits(raw), at |-> now])
C38_Debounce == [][wrapper.loaded => DeliveryRule]_vars

\* The same code detected three times: handed over, suppressed half a window
\* later, handed over again a full window after the first.
C38_Witness ==
  /\ wrapper.loaded
  /\ wrapper.seen = 3
  /\ wrapper.nhits = 2
  /\ wrapper.hit = [code |-> "036000291452", at |-> DEDUPE_MS]
  /\ now = DEDUPE_MS

\* The step is the callback of an init whose timer has fired.
IsLateCallback ==
  \E i \in DOMAIN wrapper.inits :
    wrapper.inits[i].pc = "timedOut" /\ wrapper'.inits[i].pc = "late"

\* The second half of C39 alone: after the 12 s init timeout has fired, a
\* late Quagga callback never sets active to true.
C39_LateCallbackIgnored ==
  [][(wrapper.loaded /\ IsLateCallback) => wrapper' = [wrapper EXCEPT !.inits = wrapper'.inits]]_vars

\* C39: after stop() returns, the wrapper stays inactive (active = false,
\* eventsAttached = false, no onHit delivered) until init() is called
\* again, including when stop() is called while an earlier init() is still
\* waiting for Quagga's callback; and after the 12 s init timeout has
\* fired, a late Quagga callback never sets active to true.
C39_StoppedStaysInactive ==
  /\ []((wrapper.loaded /\ wrapper.stopped) => (~wrapper.active /\ ~wrapper.eventsAttached))
  /\ [][(wrapper.loaded /\ wrapper.stopped) => wrapper'.nhits = wrapper.nhits]_vars
  /\ [][(wrapper.loaded /\ IsLateCallback) => (wrapper'.active = wrapper.active)]_vars

\* C40: after any sequence of lookups, when a lookup completes with a
\* non-empty API result, the displayed count, median and IQR are those of
\* that lookup's response, irrespective of whether an earlier lookup ended
\* with a "Local UPC match".
CompletesWithApiRows(i) ==
  /\ i \in DOMAIN els.lookups
  /\ els.lookups[i].pc = "fetching"
  /\ els'.lookups[i].pc = "done"
  /\ els'.lookups[i].data \in Responses
  /\ ApiRows(els'.lookups[i].data) > 0
C40_ShowsOwnResponse ==
  [][els.loaded =>
      \A i \in 1..MaxLookups :
        CompletesWithApiRows(i) =>
          LET st == els'.lookups[i].data.stats
          IN  /\ els'.count = ToString(st.count)
              /\ els'.median = usd(st.median)
              /\ els'.iqr = usd(st.p25) \o "-" \o usd(st.p75)]_vars

================================================================================
